---------------------------- MODULE Spec2Model ----------------------------
(***************************************************************************)
(* A model of the UN/EDIFACT codec of edixml.py: the wire parser and       *)
(* emitter (parse_edi, make_edi) and the XML mapping (make_xml,            *)
(* parse_xml).                                                             *)
(*                                                                         *)
(* A Python str is a sequence of one-character strings, so "FTX" is        *)
(* <<"F","T","X">>.  A bytes object is a sequence of byte tokens: the byte *)
(* of an ASCII character is written as that character, and the three bytes *)
(* 0xFF, 0xFE and 0x00, which the UTF-16 codec produces, are the tokens    *)
(* xFF, xFE and x00.  The structural form is a sequence of segments        *)
(* <<tag, body>>.  A call either returns a value or raises: Ok(v) and      *)
(* Raise(kind, msg, seg).                                                  *)
(***************************************************************************)
EXTENDS Integers, Sequences, FiniteSets, TLC

VARIABLES input, size, ops, vals

vars == <<input, size, ops, vals>>

-----------------------------------------------------------------------------
(* Program constants, edixml.py:882-890 *)

COMPONENT_SEPARATOR == ":"
DATAELEMENT_SEPARATOR == "+"
DECIMAL_MARK == "."
RELEASE_CHAR == "?"
SPACE == " "
SEGMENT_TERMINATOR == "'"
NEWLINE == "\n"
CARRIAGE_RETURN == "\r"

UNA == <<"U", "N", "A">>
UNB == <<"U", "N", "B">>
UNO == <<"U", "N", "O">>
FTX == <<"F", "T", "X">>

(* The bytes that are not the byte of an ASCII character. *)
xFF == "xFF"
xFE == "xFE"
x00 == "x00"
(* Any character that UTF-16 decoding makes of two ASCII bytes: its code   *)
(* point is above 255, so it is no delimiter and no letter of a tag.       *)
WIDE == "wide"

(* The syntax identifiers of the charset table and the codec of each. *)
Codec(uno) ==
    CASE uno[4] \in {"A", "B"} -> "ascii"
      [] uno[4] \in {"C", "D", "E", "F", "G", "H", "I", "J", "K", "L"} -> "iso8859"
      [] uno[4] = "X" -> "iso2022_jp_ext"
      [] uno[4] = "Y" -> "utf8"
      [] uno[4] = "W" -> "utf16"

EncodingOrder ==
    <<"A", "B", "C", "D", "E", "F", "G", "H", "I", "J", "K", "L", "X", "Y", "W">>

ENCODINGS == {UNO \o <<EncodingOrder[i]>> : i \in 1..Len(EncodingOrder)}

UNOY == UNO \o <<"Y">>
UNOW == UNO \o <<"W">>

(* The recognised segment tags.  The model keeps the tags its messages     *)
(* use: a data segment (FTX), the interchange header (UNB) and UNO, the    *)
(* tag that is also the prefix of every syntax identifier.                 *)
SEGMENTS == {FTX, UNB, UNO}

-----------------------------------------------------------------------------
(* Results of a call *)

Ok(v) == [kind |-> "ok", val |-> v, msg |-> "", seg |-> 0]

Raise(k, m, n) == [kind |-> k, val |-> <<>>, msg |-> m, seg |-> n]

IsOk(r) == r.kind = "ok"

-----------------------------------------------------------------------------
(* str and bytes methods *)

StartsWith(s, p) == Len(s) >= Len(p) /\ SubSeq(s, 1, Len(p)) = p

(* s.index(p) counted from 0, or -1 where Python raises ValueError. *)
IndexOf(s, p) ==
    LET hits == {i \in 1..(Len(s) - Len(p) + 1) : SubSeq(s, i, i + Len(p) - 1) = p}
    IN  IF hits = {} THEN -1
        ELSE (CHOOSE i \in hits : \A j \in hits : i <= j) - 1

RECURSIVE ReplaceFrom(_, _, _, _)
ReplaceFrom(s, i, old, new) ==
    IF i > Len(s) THEN <<>>
    ELSE IF i + Len(old) - 1 <= Len(s) /\ SubSeq(s, i, i + Len(old) - 1) = old
         THEN new \o ReplaceFrom(s, i + Len(old), old, new)
         ELSE <<s[i]>> \o ReplaceFrom(s, i + 1, old, new)

(* s.replace(old, new) for a non-empty old: left to right, no overlaps. *)
Replace(s, old, new) == ReplaceFrom(s, 1, old, new)

RECURSIVE Join(_, _)
Join(strs, sep) ==
    IF strs = <<>> THEN <<>>
    ELSE IF Len(strs) = 1 THEN strs[1]
    ELSE strs[1] \o sep \o Join(Tail(strs), sep)

RECURSIVE Concat(_)
Concat(strs) == IF strs = <<>> THEN <<>> ELSE strs[1] \o Concat(Tail(strs))

-----------------------------------------------------------------------------
(* The codecs of the charset table: str.encode and bytes.decode.  The text *)
(* the model encodes is ASCII (NUL included), on which every codec of the  *)
(* table but UTF-16 writes one byte per character, the same byte.          *)

NonAscii == {xFF, xFE, WIDE}

RECURSIVE Utf16Units(_)
Utf16Units(text) ==
    IF text = <<>> THEN <<>> ELSE <<text[1], x00>> \o Utf16Units(Tail(text))

(* text.encode(codec): UTF-16 writes the byte order mark FF FE and two     *)
(* bytes, low byte first, for each character.                              *)
Encode(codec, text) ==
    IF codec = "utf16" THEN Ok(<<xFF, xFE>> \o Utf16Units(text))
    ELSE IF \E i \in 1..Len(text) :
                \/ text[i] = WIDE
                \/ text[i] \in NonAscii /\ codec \in {"ascii", "iso2022_jp_ext"}
         THEN Raise("UnicodeEncodeError", "", 0)
         ELSE Ok(text)

RECURSIVE Utf16Chars(_)
Utf16Chars(bytes) ==
    IF bytes = <<>> THEN <<>>
    ELSE <<IF bytes[2] = x00 THEN bytes[1] ELSE WIDE>> \o Utf16Chars(SubSeq(bytes, 3, Len(bytes)))

(* data.decode(codec).  ASCII, UTF-8 and ISO-2022-JP reject the bytes FF   *)
(* and FE; ISO-8859-1 maps every byte to the character of the same code;   *)
(* UTF-16 needs an even number of bytes, drops a leading byte order mark   *)
(* and reads each pair, low byte first, as one character.                  *)
Decode(codec, bytes) ==
    CASE codec = "utf16" ->
            IF Len(bytes) % 2 # 0 THEN Raise("UnicodeDecodeError", "", 0)
            ELSE IF StartsWith(bytes, <<xFF, xFE>>)
                 THEN Ok(Utf16Chars(SubSeq(bytes, 3, Len(bytes))))
                 ELSE Ok(Utf16Chars(bytes))
      [] codec = "iso8859" -> Ok(bytes)
      [] OTHER ->
            IF \E i \in 1..Len(bytes) : bytes[i] \in {xFF, xFE}
            THEN Raise("UnicodeDecodeError", "", 0)
            ELSE Ok(bytes)

-----------------------------------------------------------------------------
(* Options of parse_edi and make_edi: the delimiter record, the two line   *)
(* break characters, the default syntax identifier and make_edi's flags.   *)

DefaultOptions ==
    [component_separator |-> COMPONENT_SEPARATOR,
     dataelement_separator |-> DATAELEMENT_SEPARATOR,
     decimal_mark |-> DECIMAL_MARK,
     release_char |-> RELEASE_CHAR,
     segment_terminator |-> SEGMENT_TERMINATOR,
     newline |-> NEWLINE,
     carriage_return |-> CARRIAGE_RETURN,
     default_encoding |-> UNOY,
     with_newline |-> FALSE,
     with_carriage_return |-> FALSE,
     with_una |-> TRUE]

(* A check of the four separators and the line breaks only. *)
DelimitersUniqueWithoutTerminator(o) ==
    LET chars == <<o.component_separator, o.dataelement_separator, o.decimal_mark,
                   o.release_char, o.newline, o.carriage_return>>
    IN  Len(chars) = Cardinality({chars[i] : i \in 1..Len(chars)})

(* "special-characters must be unique": the seven characters both          *)
(* functions compare (the reserved space is not among them).               *)
DelimitersUnique(o) ==
    LET chars == <<o.component_separator, o.dataelement_separator, o.decimal_mark,
                   o.release_char, o.segment_terminator, o.newline, o.carriage_return>>
    IN  Len(chars) = Cardinality({chars[i] : i \in 1..Len(chars)})

-----------------------------------------------------------------------------
(* make_edi *)

(* The three chained str.replace calls on a component: make_edi escapes    *)
(* the data-element separator, the component separator and the segment     *)
(* terminator, and not the release character.                              *)
EscapeComponent(c, o) ==
    Replace(Replace(Replace(c,
        <<o.dataelement_separator>>, <<o.release_char, o.dataelement_separator>>),
        <<o.component_separator>>, <<o.release_char, o.component_separator>>),
        <<o.segment_terminator>>, <<o.release_char, o.segment_terminator>>)

(* The line breaks make_edi appends after the UNA header and after every   *)
(* segment but the last. *)
LineBreak(o) ==
    (IF o.with_carriage_return THEN <<o.carriage_return>> ELSE <<>>)
    \o (IF o.with_newline THEN <<o.newline>> ELSE <<>>)

(* One data segment: tag, separator, the data elements joined by the       *)
(* separator, terminator.                                                  *)
SegmentString(segment, data_elements, o) ==
    segment \o <<o.dataelement_separator>>
    \o Join([c_i \in 1..Len(data_elements) |->
                Join([k \in 1..Len(data_elements[c_i]) |->
                         EscapeComponent(data_elements[c_i][k], o)],
                     <<o.component_separator>>)],
            <<o.dataelement_separator>>)
    \o <<o.segment_terminator>>

(* An admission check that lets every tag through. *)
UnknownSegmentNever(segment) == FALSE

(* "if segment not in SEGMENTS", the admission check of both functions. *)
UnknownSegment(segment) == segment \notin SEGMENTS

(* The loop over the segments from index s_i (counted from 1). *)
RECURSIVE EmitSegments(_, _, _)
EmitSegments(segments, s_i, o) ==
    IF s_i > Len(segments) THEN Ok(<<>>)
    ELSE LET segment == segments[s_i][1]
             data_elements == segments[s_i][2]
         IN  IF segment = UNA
             THEN IF s_i # 1 THEN Raise("AssertionError", "multiple UNA", 0)
                  ELSE EmitSegments(segments, s_i + 1, o)
             ELSE IF UnknownSegment(segment)
                  THEN Raise("SyntaxError", "unknown segment", 0)
                  ELSE LET rest == EmitSegments(segments, s_i + 1, o)
                       IN  IF ~IsOk(rest) THEN rest
                           ELSE Ok(SegmentString(segment, data_elements, o)
                                   \o (IF s_i # Len(segments) THEN LineBreak(o) ELSE <<>>)
                                   \o rest.val)

(* The syntax identifier make_edi encodes with: the first component of the *)
(* first data element of the first UNB segment, or the default.            *)
EmitEncoding(segments, o) ==
    LET unbs == {i \in 1..Len(segments) : segments[i][1] = UNB}
    IN  IF unbs = {} THEN Ok(o.default_encoding)
        ELSE LET dataelement == segments[CHOOSE i \in unbs : \A j \in unbs : i <= j][2]
             IN  IF dataelement = <<>> \/ dataelement[1] = <<>>
                 THEN Raise("IndexError", "", 0)
                 ELSE Ok(dataelement[1][1])

(* An emitter that copies the header from a UNA segment of the form. *)
MakeEdiHeaderFromForm(segments, o) ==
    IF ~DelimitersUnique(o) THEN Raise("AssertionError", "must be unique", 0)
    ELSE LET una == IF o.with_una
                    THEN (IF segments # <<>> /\ segments[1][1] = UNA
                          THEN UNA \o Concat(segments[1][2])
                          ELSE UNA \o <<o.component_separator, o.dataelement_separator,
                                        o.decimal_mark, o.release_char, SPACE,
                                        o.segment_terminator>>)
                         \o LineBreak(o)
                    ELSE <<>>
             strings == EmitSegments(segments, 1, o)
         IN  IF ~IsOk(strings) THEN strings
             ELSE Encode(Codec(o.default_encoding), una \o strings.val)

make_edi(segments, o) ==
    IF ~DelimitersUnique(o) THEN Raise("AssertionError", "must be unique", 0)
    ELSE LET una == IF o.with_una
                    THEN UNA \o <<o.component_separator, o.dataelement_separator,
                                  o.decimal_mark, o.release_char, SPACE,
                                  o.segment_terminator>>
                             \o LineBreak(o)
                    ELSE <<>>
             strings == EmitSegments(segments, 1, o)
             uno == EmitEncoding(segments, o)
         IN  IF ~IsOk(strings) THEN strings
             ELSE IF ~IsOk(uno) THEN uno
             ELSE IF uno.val \notin ENCODINGS THEN Raise("KeyError", "", 0)
             ELSE Encode(Codec(uno.val), una \o strings.val)

-----------------------------------------------------------------------------
(* parse_edi *)

(* "sniffing the (optional) encoding": the syntax identifier parse_edi     *)
(* decodes with.  data.index(b'UNB') raising ValueError sets unb_index to  *)
(* False, and `if unb_index` is false for the index 0 as well.             *)
SniffEncoding(data, o) ==
    LET unb_index == IndexOf(data, UNB)
    IN  IF unb_index > 0
        THEN LET uno_offset == IndexOf(SubSeq(data, unb_index + 1, Len(data)), UNO)
                 first == unb_index + uno_offset + 1
                 last == IF first + 3 <= Len(data) THEN first + 3 ELSE Len(data)
                 uno == SubSeq(data, first, last)
             IN  IF uno_offset < 0 THEN Raise("ValueError", "subsection not found", 0)
                 ELSE IF \E i \in 1..Len(uno) : uno[i] \in {xFF, xFE}
                      THEN Raise("UnicodeDecodeError", "", 0)
                      ELSE IF uno \notin ENCODINGS
                           THEN Raise("ValueError", "unknown encoding", 0)
                           ELSE Ok(uno)
        ELSE IF o.default_encoding \notin ENCODINGS
             THEN Raise("ValueError", "unknown encoding", 0)
             ELSE Ok(o.default_encoding)

(* "if default fails, all other encodings are tried": the table in its     *)
(* order from entry k, the sniffed identifier left out.                    *)
RECURSIVE DecodeFallback(_, _, _)
DecodeFallback(data, uno, k) ==
    IF k > Len(EncodingOrder) THEN Raise("UnicodeError", "unreadable", 0)
    ELSE LET encoding == UNO \o <<EncodingOrder[k]>>
         IN  IF encoding = uno THEN DecodeFallback(data, uno, k + 1)
             ELSE LET content == Decode(Codec(encoding), data)
                  IN  IF IsOk(content) THEN content
                      ELSE DecodeFallback(data, uno, k + 1)

DecodeContent(data, uno) ==
    LET content == Decode(Codec(uno), data)
    IN  IF IsOk(content) THEN content ELSE DecodeFallback(data, uno, 1)

(* "special-characters defined by optional UNA segment": unpacking         *)
(* content[3:9] into six names raises ValueError when the slice is short.  *)
ResolveDelimiters(content, o) ==
    IF StartsWith(content, UNA)
    THEN LET last == IF Len(content) < 9 THEN Len(content) ELSE 9
             six == SubSeq(content, 4, last)
         IN  IF Len(six) # 6 THEN Raise("ValueError", "not enough values to unpack", 0)
             ELSE Ok([o EXCEPT !.component_separator = six[1],
                               !.dataelement_separator = six[2],
                               !.decimal_mark = six[3],
                               !.release_char = six[4],
                               !.segment_terminator = six[6]])
    ELSE Ok(o)

(* The negative look-behind (?<!rc): position p of s holds the character d *)
(* and the character before it, if any, is not the release character.      *)
Unescaped(s, p, rc, d) == s[p] = d /\ (p = 1 \/ s[p - 1] # rc)

(* re.sub(pattern_1, segment_terminator, content): an unescaped terminator *)
(* followed by an optional carriage return and a newline becomes a bare    *)
(* terminator.                                                             *)
RECURSIVE SubLineBreaks(_, _, _)
SubLineBreaks(content, p, o) ==
    IF p > Len(content) THEN <<>>
    ELSE IF Unescaped(content, p, o.release_char, o.segment_terminator)
         THEN IF p + 2 <= Len(content) /\ content[p + 1] = o.carriage_return
                                         /\ content[p + 2] = o.newline
              THEN <<o.segment_terminator>> \o SubLineBreaks(content, p + 3, o)
              ELSE IF p + 1 <= Len(content) /\ content[p + 1] = o.newline
                   THEN <<o.segment_terminator>> \o SubLineBreaks(content, p + 2, o)
                   ELSE <<content[p]>> \o SubLineBreaks(content, p + 1, o)
         ELSE <<content[p]>> \o SubLineBreaks(content, p + 1, o)

(* re.split on an unescaped delimiter d: the pieces between the matches,   *)
(* empty pieces included.                                                  *)
RECURSIVE SplitFrom(_, _, _, _, _)
SplitFrom(s, p, from, rc, d) ==
    IF p > Len(s) THEN <<SubSeq(s, from, Len(s))>>
    ELSE IF Unescaped(s, p, rc, d)
         THEN <<SubSeq(s, from, p - 1)>> \o SplitFrom(s, p + 1, p + 1, rc, d)
         ELSE SplitFrom(s, p + 1, from, rc, d)

(* A split that keeps only the pieces with text. *)
SplitSkippingEmpty(s, rc, d) ==
    SelectSeq(SplitFrom(s, 1, 1, rc, d), LAMBDA piece : piece # <<>>)

Split(s, rc, d) == SplitFrom(s, 1, 1, rc, d)

(* Split on the unescaped delimiter, then unescape it in every piece. *)
SplitUnescape(s, rc, d) ==
    LET pieces == Split(s, rc, d)
    IN  [k \in 1..Len(pieces) |-> Replace(pieces[k], <<rc, d>>, <<d>>)]

(* "splitting content on special-characters": the segment lines, the piece *)
(* after the last terminator dropped.                                      *)
Lines(content, o) ==
    LET lines == SplitUnescape(SubLineBreaks(content, 1, o),
                               o.release_char, o.segment_terminator)
    IN  SubSeq(lines, 1, Len(lines) - 1)

(* The data elements of a line, a data element without text left without   *)
(* component.                                                              *)
DataElementsWithoutEmpty(text, o) ==
    LET data_elements == SplitUnescape(text, o.release_char, o.dataelement_separator)
    IN  [k \in 1..Len(data_elements) |->
            IF data_elements[k] = <<>> THEN <<>>
            ELSE SplitUnescape(data_elements[k], o.release_char, o.component_separator)]

(* The data elements of a line, each a list of components. *)
DataElements(text, o) ==
    LET data_elements == SplitUnescape(text, o.release_char, o.dataelement_separator)
    IN  [k \in 1..Len(data_elements) |->
            SplitUnescape(data_elements[k], o.release_char, o.component_separator)]

(* "parsing the segments": the loop over the lines from line i (counted    *)
(* from 1, the number the syntax error cites).                             *)
RECURSIVE ParseLines(_, _, _)
ParseLines(lines, i, o) ==
    IF i > Len(lines) THEN Ok(<<>>)
    ELSE LET line == lines[i]
             rest == ParseLines(lines, i + 1, o)
         IN  IF StartsWith(line, UNA)
             THEN IF i # 1 THEN Raise("AssertionError", "multiple UNA", 0)
                  ELSE IF ~IsOk(rest) THEN rest
                  ELSE Ok(<<<<UNA, <<<<o.component_separator>>, <<o.dataelement_separator>>,
                                     <<o.decimal_mark>>, <<o.release_char>>, <<SPACE>>,
                                     <<o.segment_terminator>>>>>>>> \o rest.val)
             ELSE IF Len(line) < 4 THEN Raise("IndexError", "string index out of range", 0)
             ELSE IF line[4] # o.dataelement_separator
                  THEN Raise("SyntaxError", "expected dataelement separator", i)
             ELSE IF UnknownSegment(SubSeq(line, 1, 3))
                  THEN Raise("SyntaxError", "unknown segment", 0)
             ELSE IF ~IsOk(rest) THEN rest
             ELSE Ok(<<<<SubSeq(line, 1, 3),
                         DataElements(SubSeq(line, 5, Len(line)), o)>>>> \o rest.val)

(* parse_edi from "decode" on, with the syntax identifier uno. *)
ParseContent(data, uno, opts) ==
    LET content == DecodeContent(data, uno)
    IN  IF ~IsOk(content) THEN content
        ELSE LET o == ResolveDelimiters(content.val, opts)
             IN  IF ~IsOk(o) THEN o
                 ELSE IF ~DelimitersUnique(o.val)
                      THEN Raise("AssertionError", "must be unique", 0)
                      ELSE ParseLines(Lines(content.val, o.val), 1, o.val)

parse_edi(data, opts) ==
    LET uno == SniffEncoding(data, opts)
    IN  IF ~IsOk(uno) THEN uno
        ELSE ParseContent(data, uno.val, opts)

-----------------------------------------------------------------------------
(* make_xml and parse_xml.  An ElementTree element is a record of its tag, *)
(* its text (None until set) and its children in order.                    *)

None == <<"None">>

Element(tag, text, children) == [tag |-> tag, text |-> text, children |-> children]

Digit(n) == <<"0", "1", "2", "3", "4", "5", "6", "7", "8", "9">>[n + 1]

(* '%s' % n for an index n >= 0 *)
RECURSIVE Dec(_)
Dec(n) == IF n < 10 THEN <<Digit(n)>> ELSE Dec(n \div 10) \o <<Digit(n % 10)>>

(* A writer that makes a child only for a non-empty component. *)
SegmentElementSkippingEmpty(segment, data_elements) ==
    IF segment = UNA THEN Element(UNA, Concat(data_elements), <<>>)
    ELSE Element(segment, None,
            [d \in 1..Len(data_elements) |->
                Element(segment \o Dec(d - 1), None,
                    LET kept == SelectSeq(data_elements[d], LAMBDA c : c # <<>>)
                    IN  [c \in 1..Len(kept) |->
                            Element(segment \o Dec(d - 1) \o Dec(c - 1),
                                    kept[c], <<>>)])])

(* The child of the root for the segment at index s_i (counted from 1):    *)
(* UNA carries its characters as text, any other segment one child per     *)
(* data element (tag SEG<d_i>) holding one child per component (tag        *)
(* SEG<d_i><c_i>) whose text is set only for a non-empty component.        *)
SegmentElement(segment, data_elements) ==
    IF segment = UNA THEN Element(UNA, Concat(data_elements), <<>>)
    ELSE Element(segment, None,
            [d \in 1..Len(data_elements) |->
                Element(segment \o Dec(d - 1), None,
                    [c \in 1..Len(data_elements[d]) |->
                        Element(segment \o Dec(d - 1) \o Dec(c - 1),
                                IF data_elements[d][c] # <<>>
                                THEN data_elements[d][c] ELSE None,
                                <<>>)])])

make_xml(segments, root_tag) ==
    IF \E s_i \in 2..Len(segments) : segments[s_i][1] = UNA
    THEN Raise("AssertionError", "multiple UNA", 0)
    ELSE Ok(Element(root_tag, None,
                    [s_i \in 1..Len(segments) |->
                        SegmentElement(segments[s_i][1], segments[s_i][2])]))

(* A reader that takes the text of a component element as it is stored. *)
ComponentTextAsStored(component) == component.text

(* The text of a component element: "if component.text" is false for None  *)
(* and for the empty string.                                               *)
ComponentText(component) ==
    IF component.text # None /\ component.text # <<>> THEN component.text ELSE <<>>

(* The segment parse_xml appends for one child of the root. *)
ElementSegment(element) ==
    IF element.tag = UNA
    THEN <<UNA, [k \in 1..Len(element.text) |-> <<element.text[k]>>]>>
    ELSE <<element.tag,
           [d \in 1..Len(element.children) |->
               [c \in 1..Len(element.children[d].children) |->
                   ComponentText(element.children[d].children[c])]]>>

(* The loop over the children of the root from child e_i (counted from 1). *)
RECURSIVE ParseElements(_, _)
ParseElements(root, e_i) ==
    IF e_i > Len(root.children) THEN Ok(<<>>)
    ELSE LET element == root.children[e_i]
             rest == ParseElements(root, e_i + 1)
         IN  IF element.tag = UNA /\ e_i # 1
             THEN Raise("AssertionError", "multiple UNA", 0)
             ELSE IF element.tag = UNA /\ element.text = None
             THEN Raise("TypeError", "NoneType is not iterable", 0)
             ELSE IF ~IsOk(rest) THEN rest
             ELSE Ok(<<ElementSegment(element)>> \o rest.val)

parse_xml(root) == ParseElements(root, 1)

EDIFACT == <<"E", "D", "I", "F", "A", "C", "T">>

-----------------------------------------------------------------------------
(* The annotator: report and make_edi_xml                                  *)
(*                                                                         *)
(* A segment dictionary sd maps a tag to [name, description, table]; a row *)
(* of a table is [pos, code, name, representation, mc, repeat], where pos  *)
(* and representation may be None.  An element dictionary ed maps a code   *)
(* to a record that may have a table from values to [name, description].   *)

EndsWith(s, p) == Len(s) >= Len(p) /\ SubSeq(s, Len(s) - Len(p) + 1, Len(s)) = p

Digits == {"0", "1", "2", "3", "4", "5", "6", "7", "8", "9"}

IsDigits(s) == s # <<>> /\ \A i \in 1..Len(s) : s[i] \in Digits

(* int(d) for a string of digits *)
RECURSIVE IntOf(_)
IntOf(d) ==
    IF d = <<>> THEN 0
    ELSE 10 * IntOf(SubSeq(d, 1, Len(d) - 1))
         + (CHOOSE n \in 0..9 : Digit(n) = d[Len(d)])

(* str.isalpha() on the characters of the model: letters are the capitals. *)
IsAlpha(s) ==
    /\ s # <<>>
    /\ \A i \in 1..Len(s) :
         s[i] \in {"A", "B", "F", "M", "N", "O", "T", "U", "W", "X", "Y", "Z"}

(* re.match('\d*(\.|,)?\d+', component) *)
MatchesNumeric(component) ==
    /\ component # <<>>
    /\ \/ component[1] \in Digits
       \/ /\ component[1] \in {".", ","}
          /\ Len(component) >= 2
          /\ component[2] \in Digits

(* A selection of the last row whose pos ends with pos. *)
StartOfLastMatch(table, pos) ==
    LET found == {k \in 1..Len(table) :
                     /\ table[k].pos # None /\ table[k].pos # <<>>
                     /\ EndsWith(table[k].pos, pos)}
    IN  IF found = {} THEN -1
        ELSE (CHOOSE k \in found : \A j \in found : k >= j) - 1

(* "cd = [r for r in table if r['pos'] and r['pos'].endswith(pos)][0]" and *)
(* "start = table.index(cd)": the index (from 0) of the first row equal to *)
(* the first row whose pos ends with pos, -1 when there is none.           *)
StartOf(table, pos) ==
    LET found == {k \in 1..Len(table) :
                     /\ table[k].pos # None /\ table[k].pos # <<>>
                     /\ EndsWith(table[k].pos, pos)}
    IN  IF found = {} THEN -1
        ELSE LET first == CHOOSE k \in found : \A j \in found : k <= j
             IN  (CHOOSE k \in 1..Len(table) :
                     /\ table[k] = table[first]
                     /\ \A j \in 1..(k - 1) : table[j] # table[first]) - 1

(* The type and the digits of a representation: split on '..' or, without  *)
(* it, the digits taken out and the text before them.                      *)
ReprDigits(representation) ==
    IF IndexOf(representation, <<".", ".">>) >= 0
    THEN SubSeq(representation, IndexOf(representation, <<".", ".">>) + 3,
                Len(representation))
    ELSE SelectSeq(representation, LAMBDA ch : ch \in Digits)

ReprType(representation) ==
    IF IndexOf(representation, <<".", ".">>) >= 0
    THEN SubSeq(representation, 1, IndexOf(representation, <<".", ".">>))
    ELSE SubSeq(representation, 1,
                IndexOf(representation, ReprDigits(representation)))

(* The repr_errors of a non-empty component, as report lines. *)
ReprErrors(component, representation) ==
    LET dots == IndexOf(representation, <<".", ".">>) >= 0
        t == ReprType(representation)
        d == ReprDigits(representation)
    IN  IF representation = None
        THEN Raise("TypeError", "argument of type 'NoneType' is not iterable", 0)
        ELSE IF dots /\ IndexOf(d, <<".", ".">>) >= 0
        THEN Raise("ValueError", "too many values to unpack", 0)
        ELSE IF ~dots /\ IndexOf(representation, d) < 0
        THEN Raise("ValueError", "substring not found", 0)
        ELSE IF t \notin {<<"a">>, <<"n">>, <<"a", "n">>}
        THEN Raise("AssertionError", "invalid representation-type", 0)
        ELSE IF ~IsDigits(d)
        THEN Raise("AssertionError", "invalid representation-digits", 0)
        ELSE Ok((IF t = <<"a">> /\ ~IsAlpha(component)
                 THEN <<<<"    ERROR:", "is not alphanumeric.">>>> ELSE <<>>)
             \o (IF t = <<"n">> /\ ~MatchesNumeric(component)
                 THEN <<<<"    ERROR:", "is not numeric.">>>> ELSE <<>>)
             \o (IF dots /\ ~(Len(component) <= IntOf(d))
                 THEN <<<<"    ERROR:", "repr: ">> \o representation
                        \o <<",  max. len ">> \o d>> ELSE <<>>)
             \o (IF ~dots /\ Len(component) # IntOf(d)
                 THEN <<<<"    ERROR:", "repr: ">> \o representation
                        \o <<", exact len ">> \o d>> ELSE <<>>))

(* The line report appends for an empty component of a mandatory row. *)
MissingMandatory(code, segment) ==
    <<"\n    Error, component <">> \o code \o <<"> in segment ">> \o segment

(* A mandatory check that does not look at the row of the data element. *)
IsMissingMandatoryAnywhere(component, r, cd) ==
    component = <<>> /\ r.mc = "M"

(* The mandatory check of report: the row is 'M', the component is empty   *)
(* and the row the data element was found by has a representation.         *)
IsMissingMandatory(component, r, cd) ==
    component = <<>> /\ r.mc = "M" /\ cd.representation # None

(* The lines of report for the rows table[start:] from row i_r (from 0),   *)
(* paired with the components of a data element.                           *)
RECURSIVE ReportRows(_, _, _, _, _, _, _)
ReportRows(data_element, table, start, i_r, cd, segment, ed) ==
    IF start + i_r + 1 > Len(table) \/ Len(data_element) = i_r THEN Ok(<<>>)
    ELSE LET r == table[start + i_r + 1]
             code == r.code
             component == data_element[i_r + 1]
             msg == <<"    ">> \o r.name \o <<" <">> \o component \o <<"> (">>
                    \o code \o <<")">>
         IN  IF component # <<>> /\ code \notin DOMAIN ed
             THEN Raise("KeyError", "code", 0)
             ELSE LET coded == component # <<>> /\ "table" \in DOMAIN ed[code]
                      known == coded /\ component \in DOMAIN ed[code].table
                      code_name == IF known THEN ed[code].table[component].name
                                   ELSE None
                      errors == IF component # <<>>
                                THEN ReprErrors(component, r.representation)
                                ELSE Ok(<<>>)
                      rest == ReportRows(data_element, table, start, i_r + 1,
                                         cd, segment, ed)
                  IN  IF ~IsOk(errors) THEN errors
                      ELSE IF ~IsOk(rest) THEN rest
                      ELSE Ok((IF coded /\ ~known
                               THEN <<<<"    ERROR: unknown code <">> \o component
                                      \o <<"> not in (">> \o code \o <<")">>>>
                               ELSE <<>>)
                           \o <<IF code_name # None /\ code_name # <<>>
                                THEN msg \o <<" ">> \o code_name ELSE msg>>
                           \o errors.val
                           \o (IF IsMissingMandatory(component, r, cd)
                               THEN <<MissingMandatory(code, segment)>>
                               ELSE <<>>)
                           \o rest.val)

(* The lines of report for the data elements of a segment from i_d (from   *)
(* 0).                                                                     *)
RECURSIVE ReportElements(_, _, _, _, _)
ReportElements(data_elements, i_d, table, segment, ed) ==
    IF i_d >= Len(data_elements) THEN Ok(<<>>)
    ELSE LET pos == Dec((i_d + 1) * 10)
             at == StartOf(table, pos)
         IN  IF at < 0 THEN Raise("IndexError", "list index out of range", 0)
             ELSE LET cd == table[at + 1]
                      start == IF cd.representation = None THEN at + 1 ELSE at
                      header == IF cd.representation = None
                                THEN <<<<"  ">> \o cd.name \o <<" (">>
                                       \o cd.code \o <<")">>>>
                                ELSE <<>>
                      rows == ReportRows(data_elements[i_d + 1], table, start, 0,
                                         cd, segment, ed)
                      rest == ReportElements(data_elements, i_d + 1, table,
                                             segment, ed)
                  IN  IF ~IsOk(rows) THEN rows
                      ELSE IF ~IsOk(rest) THEN rest
                      ELSE Ok(header \o rows.val \o rest.val)

(* The lines of report for the segments from index s_i (from 0). *)
RECURSIVE ReportSegments(_, _, _, _)
ReportSegments(segments, s_i, sd, ed) ==
    IF s_i >= Len(segments) THEN Ok(<<>>)
    ELSE LET segment == segments[s_i + 1][1]
             data_elements == segments[s_i + 1][2]
             rest == ReportSegments(segments, s_i + 1, sd, ed)
         IN  IF segment \notin DOMAIN sd
             THEN IF ~IsOk(rest) THEN rest
                  ELSE Ok((IF segment # UNA
                           THEN <<<<"ERROR: skipping undefined segment: <">>
                                  \o segment \o <<"> at index ">> \o Dec(s_i)>>
                           ELSE <<>>)
                          \o rest.val)
             ELSE LET emitted == make_edi(<<segments[s_i + 1]>>,
                                      [DefaultOptions EXCEPT !.with_una = FALSE])
                      edi_line == IF IsOk(emitted)
                                  THEN Decode("utf8", emitted.val) ELSE emitted
                      elements == ReportElements(data_elements, 0,
                                                 sd[segment].table, segment, ed)
                  IN  IF ~IsOk(edi_line) THEN edi_line
                      ELSE IF ~IsOk(elements) THEN elements
                      ELSE IF ~IsOk(rest) THEN rest
                      ELSE Ok(<<edi_line.val,
                                [i \in 1..Len(edi_line.val) |-> "-"],
                                sd[segment].name \o <<" <">> \o segment \o <<">">>>>
                              \o elements.val
                              \o <<<<>>>>
                              \o rest.val)

report(segments, sd, ed) ==
    LET lines == ReportSegments(segments, 0, sd, ed)
    IN  IF IsOk(lines) THEN Ok(Join(lines.val, <<"\n">>)) ELSE lines

(* An element with attributes. *)
AttrElement(tag, text, children, attrib) ==
    [tag |-> tag, text |-> text, children |-> children, attrib |-> attrib]

(* No attributes *)
NoAttrib == [a \in {} |-> None]

(* The attributes make_edi_xml gives the component at row r, when the      *)
(* loop over table[start:] reaches it.                                     *)
ComponentAttrib(component, r, ed) ==
    LET base == [code |-> r.code, name |-> r.name, mc |-> r.mc,
                 representation |-> r.representation]
    IN  IF "table" \in DOMAIN ed[r.code] /\ component # <<>>
        THEN IF component \in DOMAIN ed[r.code].table
             THEN ("value" :> ed[r.code].table[component].name)
                  @@ ("description" :> ed[r.code].table[component].description)
                  @@ base
             ELSE ("value" :> <<"CUSTOM CODE">>) @@ base
        ELSE base

(* The attributes of the element of a data element found by the row cd. *)
DataElementAttrib(cd, pos) ==
    (IF cd.repeat # None /\ cd.repeat # <<>>
     THEN [repeat |-> cd.repeat, mc |-> cd.mc] ELSE NoAttrib)
    @@ (IF cd.representation # None /\ cd.pos # None
        THEN [pos |-> pos] ELSE NoAttrib)
    @@ (IF cd.representation = None
        THEN [pos |-> pos, code |-> cd.code, name |-> cd.name] ELSE NoAttrib)

(* The element of the data element at index d_i (from 0) of a segment. *)
AnnotatedDataElement(segment, d_i, data_element, table, ed) ==
    LET pos == Dec((d_i + 1) * 10)
        at == StartOf(table, pos)
    IN  IF at < 0 THEN Raise("IndexError", "list index out of range", 0)
        ELSE LET cd == table[at + 1]
                 start == IF cd.representation = None THEN at + 1 ELSE at
                 paired == {c \in 1..Len(data_element) : start + c <= Len(table)}
             IN  IF \E c \in paired : table[start + c].code \notin DOMAIN ed
                 THEN Raise("KeyError", "code", 0)
                 ELSE Ok(AttrElement(segment \o Dec(d_i), None,
                        [c \in 1..Len(data_element) |->
                            AttrElement(segment \o Dec(d_i) \o Dec(c - 1),
                                IF data_element[c] # <<>>
                                THEN data_element[c] ELSE None,
                                <<>>,
                                IF c \in paired
                                THEN ComponentAttrib(data_element[c],
                                                     table[start + c], ed)
                                ELSE NoAttrib)],
                        DataElementAttrib(cd, pos)))

(* The child of the root for one segment. *)
AnnotatedSegment(segment, data_elements, sd, ed) ==
    IF segment = UNA
    THEN Ok(AttrElement(UNA, Concat(data_elements), <<>>, NoAttrib))
    ELSE IF segment \notin DOMAIN sd THEN Raise("KeyError", "segment", 0)
    ELSE LET children == [d \in 1..Len(data_elements) |->
                 AnnotatedDataElement(segment, d - 1, data_elements[d],
                                      sd[segment].table, ed)]
         IN  IF \E d \in 1..Len(children) : ~IsOk(children[d])
             THEN children[CHOOSE d \in 1..Len(children) :
                              /\ ~IsOk(children[d])
                              /\ \A e \in 1..(d - 1) : IsOk(children[e])]
             ELSE Ok(AttrElement(segment, None,
                        [d \in 1..Len(children) |-> children[d].val],
                        [description |-> sd[segment].description,
                         name |-> sd[segment].name]))

make_edi_xml(segments, sd, ed, root_tag) ==
    LET children == [s_i \in 1..Len(segments) |->
             AnnotatedSegment(segments[s_i][1], segments[s_i][2], sd, ed)]
    IN  IF \E s_i \in 1..Len(children) : ~IsOk(children[s_i])
        THEN children[CHOOSE s_i \in 1..Len(children) :
                         /\ ~IsOk(children[s_i])
                         /\ \A e \in 1..(s_i - 1) : IsOk(children[e])]
        ELSE Ok(AttrElement(root_tag, None,
                            [s_i \in 1..Len(children) |-> children[s_i].val],
                            NoAttrib))

(* The dictionaries of the sessions: a segment with a mandatory simple     *)
(* data element and a composite of a mandatory and a conditional           *)
(* component, one of the codes with a code table.                          *)
Row(pos, code, name, representation, mc, repeat) ==
    [pos |-> pos, code |-> code, name |-> name,
     representation |-> representation, mc |-> mc, repeat |-> repeat]

FTXTable ==
    <<Row(<<"0", "1", "0">>, <<"4451">>, <<"TEXT SUBJECT CODE QUALIFIER">>,
          <<"a", "n", ".", ".", "1">>, "M", <<"1">>),
      Row(<<"0", "2", "0">>, <<"C107">>, <<"TEXT REFERENCE">>, None, "C", <<"1">>),
      Row(None, <<"4441">>, <<"Free text description code">>,
          <<"a", "1">>, "M", None),
      Row(None, <<"1131">>, <<"Code list identification code">>,
          <<"n", ".", ".", "2">>, "C", None)>>

SD ==
    (FTX :> [name |-> <<"FREE TEXT">>,
             description |-> <<"To provide free form or coded text information.">>,
             table |-> FTXTable])

ED ==
    (<<"4451">> :> [name |-> <<"Text subject code qualifier">>,
                    table |-> (<<"A">> :> [name |-> <<"Title">>,
                                           description |-> <<"A title.">>])])
    @@ (<<"4441">> :> [name |-> <<"Free text description code">>])
    @@ (<<"1131">> :> [name |-> <<"Code list identification code">>])

-----------------------------------------------------------------------------
(* The state.  A session first assembles a message, a structural form or a *)
(* byte string (input, of the given size), and then calls the codec: ops   *)
(* are the calls made so far, each on the result of the call before it,    *)
(* and vals is what each returned or raised.                               *)
(*                                                                         *)
(* The size of a structural form is its weight: one for each segment, data *)
(* element and component and one for each character of a component (a word *)
(* counts as one character).  The size of a byte string is the number of   *)
(* tokens it was assembled from.                                           *)

MaxWeight == 6
MaxLen == 2
MaxTokens == 4
MaxOps == 4

XYZ == <<"X", "Y", "Z">>

DataChars == {COMPONENT_SEPARATOR, DATAELEMENT_SEPARATOR, SEGMENT_TERMINATOR,
              RELEASE_CHAR, "A"}

Words == {UNB, UNOY, UNOW}

InputTags == {FTX, UNB, XYZ}

DefaultUNA ==
    <<UNA, <<<<COMPONENT_SEPARATOR>>, <<DATAELEMENT_SEPARATOR>>, <<DECIMAL_MARK>>,
             <<RELEASE_CHAR>>, <<SPACE>>, <<SEGMENT_TERMINATOR>>>>>>

UNAHeader == UNA \o <<COMPONENT_SEPARATOR, DATAELEMENT_SEPARATOR, DECIMAL_MARK,
                      RELEASE_CHAR, SPACE, SEGMENT_TERMINATOR>>

Tokens == {<<c>> : c \in DataChars}
          \cup {FTX \o <<DATAELEMENT_SEPARATOR>>, XYZ \o <<DATAELEMENT_SEPARATOR>>,
                UNB \o <<DATAELEMENT_SEPARATOR>>, FTX, UNA, UNOY}

Building(type) == input.type = type /\ ops = <<>>

Assemble(val, weight) ==
    /\ size + weight <= (IF input.type = "bytes" THEN MaxTokens ELSE MaxWeight)
    /\ input' = [input EXCEPT !.val = val]
    /\ size' = size + weight
    /\ UNCHANGED <<ops, vals>>

(* The message ends in a data element, in a component. *)
HasElement ==
    /\ input.val # <<>>
    /\ input.val[Len(input.val)][1] # UNA
    /\ input.val[Len(input.val)][2] # <<>>

HasComponent ==
    /\ HasElement
    /\ LET body == input.val[Len(input.val)][2] IN body[Len(body)] # <<>>

AddSegment(tag) ==
    /\ Building("segments")
    /\ Assemble(Append(input.val, <<tag, <<>>>>), 1)

AddUNA ==
    /\ Building("segments")
    /\ Assemble(Append(input.val, DefaultUNA), 1)

AddElement ==
    /\ Building("segments")
    /\ input.val # <<>>
    /\ input.val[Len(input.val)][1] # UNA
    /\ Assemble([input.val EXCEPT ![Len(input.val)][2] = Append(@, <<>>)], 1)

AddComponent(c) ==
    /\ Building("segments")
    /\ HasElement
    /\ LET n == Len(input.val)
           m == Len(input.val[n][2])
       IN  Assemble([input.val EXCEPT ![n][2][m] = Append(@, c)],
                    IF c = <<>> THEN 1 ELSE 2)

AddChar(ch) ==
    /\ Building("segments")
    /\ HasComponent
    /\ LET n == Len(input.val)
           m == Len(input.val[n][2])
           k == Len(input.val[n][2][m])
       IN  /\ Len(input.val[n][2][m][k]) < MaxLen
           /\ Assemble([input.val EXCEPT ![n][2][m][k] = Append(@, ch)], 1)

AddToken(t) ==
    /\ Building("bytes")
    /\ Assemble(input.val \o t, 1)

-----------------------------------------------------------------------------
(* The calls *)

Call(fn, opts) == [fn |-> fn, opts |-> opts]

ResultType(fn) ==
    CASE fn = "make_edi" -> "bytes"
      [] fn = "parse_edi" -> "segments"
      [] fn = "make_xml" -> "xml"
      [] fn = "parse_xml" -> "segments"
      [] fn = "report" -> "text"
      [] fn = "make_edi_xml" -> "xml"

CurrentType == IF ops = <<>> THEN input.type ELSE ResultType(ops[Len(ops)].fn)

Current == IF ops = <<>> THEN input.val ELSE vals[Len(vals)].val

(* A call can be made on a value of type t: the call before it returned. *)
CanCall(t) ==
    /\ Len(ops) < MaxOps
    /\ IF ops = <<>> THEN TRUE ELSE IsOk(vals[Len(vals)])
    /\ CurrentType = t

(* A call that empties the list it is given. *)
RecordConsuming(fn, opts, result) ==
    /\ ops' = Append(ops, Call(fn, opts))
    /\ vals' = Append(vals, result)
    /\ input' = IF ops = <<>> THEN [input EXCEPT !.val = <<>>] ELSE input
    /\ UNCHANGED size

Record(fn, opts, result) ==
    /\ ops' = Append(ops, Call(fn, opts))
    /\ vals' = Append(vals, result)
    /\ UNCHANGED <<input, size>>

MakeEdi(opts) ==
    /\ CanCall("segments")
    /\ Record("make_edi", opts, make_edi(Current, opts))

ParseEdi(opts) ==
    /\ CanCall("bytes")
    /\ Record("parse_edi", opts, parse_edi(Current, opts))

MakeXml ==
    /\ CanCall("segments")
    /\ Record("make_xml", DefaultOptions, make_xml(Current, EDIFACT))

ParseXml ==
    /\ CanCall("xml")
    /\ Record("parse_xml", DefaultOptions, parse_xml(Current))

Init ==
    /\ input \in {[type |-> "segments", val |-> <<>>],
                  [type |-> "bytes", val |-> <<>>],
                  [type |-> "bytes", val |-> UNAHeader]}
    /\ size = 0
    /\ ops = <<>>
    /\ vals = <<>>

Next ==
    \/ \E tag \in InputTags : AddSegment(tag)
    \/ AddUNA
    \/ AddElement
    \/ \E c \in {<<>>} \cup Words : AddComponent(c)
    \/ \E ch \in DataChars : AddChar(ch)
    \/ \E t \in Tokens : AddToken(t)
    \/ MakeEdi(DefaultOptions)
    \/ ParseEdi(DefaultOptions)
    \/ MakeXml
    \/ ParseXml

(* Sessions with the default options. *)
Spec == Init /\ [][Next]_vars

-----------------------------------------------------------------------------
(* Vocabulary of the properties *)

(* The argument of call k. *)
ValueBefore(k) == IF k = 1 THEN input.val ELSE vals[k - 1].val

(* Call k was fn with the default options. *)
Called(k, fn) == k <= Len(ops) /\ ops[k] = Call(fn, DefaultOptions)

DataSegments(S) == {i \in 1..Len(S) : S[i][1] # UNA}

Components(S) ==
    UNION {UNION {{S[i][2][d][c] : c \in 1..Len(S[i][2][d])} : d \in 1..Len(S[i][2])}
           : i \in DataSegments(S)}

Contains(str, ch) == \E p \in 1..Len(str) : str[p] = ch

StartsWithDefaultUNA(S) == S # <<>> /\ S[1] = DefaultUNA

(* UNA at most at index 0, every other tag in the recognised set. *)
RecognisedTags(S) == \A i \in 2..Len(S) : S[i][1] \in SEGMENTS

(* Every data segment has a data element and every data element has a      *)
(* component.                                                              *)
CanonicalShape(S) ==
    \A i \in DataSegments(S) :
        /\ S[i][2] # <<>>
        /\ \A d \in 1..Len(S[i][2]) : S[i][2][d] # <<>>

NoReleaseChar(S) == \A c \in Components(S) : ~Contains(c, RELEASE_CHAR)

(* No interchange header and no component that holds the letters of one. *)
NoUNB(S) ==
    /\ \A i \in 1..Len(S) : S[i][1] # UNB
    /\ \A c \in Components(S) : IndexOf(c, UNB) = -1

-----------------------------------------------------------------------------
(* Round trips *)

(* C1: for a form S that starts with the default UNA segment, has only     *)
(* recognised tags and whose components are arbitrary strings (the release *)
(* character included), parse_edi(make_edi(S)) returns S.  Stated here for *)
(* the forms that have a component in every position and no interchange    *)
(* header, which the default encoding carries unchanged.                   *)
C1_RoundTripAnyComponent ==
    \A k \in 1..Len(ops) :
        (/\ Called(k, "make_edi") /\ Called(k + 1, "parse_edi")
         /\ StartsWithDefaultUNA(ValueBefore(k))
         /\ RecognisedTags(ValueBefore(k))
         /\ CanonicalShape(ValueBefore(k))
         /\ NoUNB(ValueBefore(k)))
        => vals[k + 1] = Ok(ValueBefore(k))

(* C2: on the canonical subset (default UNA first, a data element in every *)
(* data segment, a component in every data element, no release character   *)
(* in a component) parse_edi(make_edi(S)) returns S, whatever separators   *)
(* and terminators the components hold.                                    *)
C2_RoundTripCanonical ==
    \A k \in 1..Len(ops) :
        (/\ Called(k, "make_edi") /\ Called(k + 1, "parse_edi")
         /\ StartsWithDefaultUNA(ValueBefore(k))
         /\ RecognisedTags(ValueBefore(k))
         /\ CanonicalShape(ValueBefore(k))
         /\ NoReleaseChar(ValueBefore(k)))
        => vals[k + 1] = Ok(ValueBefore(k))

(* The canonical subset without the letters of an interchange header. *)
RoundTripCanonicalWithoutUNB ==
    \A k \in 1..Len(ops) :
        (/\ Called(k, "make_edi") /\ Called(k + 1, "parse_edi")
         /\ CanonicalShape(ValueBefore(k))
         /\ NoReleaseChar(ValueBefore(k))
         /\ NoUNB(ValueBefore(k)))
        => vals[k + 1] = Ok(<<DefaultUNA>>
                            \o SelectSeq(ValueBefore(k), LAMBDA seg : seg[1] # UNA))

(* C3: the bytes B that make_edi emits with the default options are        *)
(* accepted by parse_edi, and make_edi of what it returns is B again.      *)
(* Stated for forms without an interchange header.                         *)
C3_EmittedBytesAreStable ==
    \A k \in 1..Len(ops) :
        (/\ Called(k, "make_edi") /\ Called(k + 1, "parse_edi")
         /\ NoUNB(ValueBefore(k)))
        => /\ IsOk(vals[k + 1])
           /\ Called(k + 2, "make_edi") => vals[k + 2] = vals[k]

(* The same for the forms without a release character in a component. *)
EmittedBytesAreStableWithoutRelease ==
    \A k \in 1..Len(ops) :
        (/\ Called(k, "make_edi") /\ Called(k + 1, "parse_edi")
         /\ NoUNB(ValueBefore(k))
         /\ NoReleaseChar(ValueBefore(k)))
        => /\ IsOk(vals[k + 1])
           /\ Called(k + 2, "make_edi") => vals[k + 2] = vals[k]

(* UNA, if present, only at index 0. *)
UNAOnlyFirst(S) == \A i \in 2..Len(S) : S[i][1] # UNA

(* C4: parse_xml(make_xml(S)) returns S for every form S whose UNA, if     *)
(* present, is at index 0 with six single characters: empty bodies, empty  *)
(* data elements and empty components included.                            *)
C4_XmlRoundTrip ==
    \A k \in 1..Len(ops) :
        /\ (ops[k].fn = "make_xml" /\ UNAOnlyFirst(ValueBefore(k)))
           => IsOk(vals[k])
        /\ (ops[k].fn = "make_xml" /\ k < Len(ops) /\ ops[k + 1].fn = "parse_xml")
           => vals[k + 1] = Ok(ValueBefore(k))

(* A form with UNA, a segment without data elements, a data element        *)
(* without components and an empty component went through both.            *)
C4_Witness ==
    /\ input.type = "segments"
    /\ StartsWithDefaultUNA(input.val)
    /\ \E i \in DataSegments(input.val) : input.val[i][2] = <<>>
    /\ \E i \in DataSegments(input.val) :
           \E d \in 1..Len(input.val[i][2]) : input.val[i][2][d] = <<>>
    /\ <<>> \in Components(input.val)
    /\ Len(ops) = 2
    /\ ops[1].fn = "make_xml" /\ ops[2].fn = "parse_xml"
    /\ vals[2] = Ok(input.val)

(* C5: for every byte string B that parse_edi accepts, the form it returns *)
(* goes through make_xml and parse_xml, and make_edi of the result is the  *)
(* same bytes as make_edi of the form itself.                              *)
C5_XmlPreservesEmission ==
    \A k \in 1..Len(ops) :
        (Called(k, "parse_edi") /\ IsOk(vals[k]) /\ k + 1 <= Len(ops)
         /\ ops[k + 1].fn = "make_xml")
        => /\ IsOk(vals[k + 1])
           /\ (k + 2 <= Len(ops) /\ ops[k + 2].fn = "parse_xml")
              => /\ IsOk(vals[k + 2])
                 /\ Called(k + 3, "make_edi")
                    => vals[k + 3] = make_edi(vals[k].val, DefaultOptions)

(* Bytes with an empty component were parsed, written as XML, read back    *)
(* and emitted.                                                            *)
C5_Witness ==
    /\ input.type = "bytes"
    /\ Len(ops) = 4
    /\ Called(1, "parse_edi") /\ IsOk(vals[1])
    /\ ops[2].fn = "make_xml" /\ ops[3].fn = "parse_xml"
    /\ Called(4, "make_edi") /\ IsOk(vals[4])
    /\ <<>> \in Components(vals[1].val)
    /\ \E c \in Components(vals[1].val) : c # <<>>

-----------------------------------------------------------------------------
(* Delimiters *)

(* A second record of delimiters, each different from its default. *)
AltOptions ==
    [DefaultOptions EXCEPT !.component_separator = DATAELEMENT_SEPARATOR,
                           !.dataelement_separator = COMPONENT_SEPARATOR,
                           !.decimal_mark = ",",
                           !.release_char = "A",
                           !.segment_terminator = RELEASE_CHAR]

InitDelims ==
    /\ input = [type |-> "segments", val |-> <<>>]
    /\ size = 0
    /\ ops = <<>>
    /\ vals = <<>>

NextDelims ==
    \/ \E tag \in InputTags : AddSegment(tag)
    \/ AddUNA
    \/ AddElement
    \/ \E c \in {<<>>} \cup Words : AddComponent(c)
    \/ \E ch \in DataChars : AddChar(ch)
    \/ \E opts \in {DefaultOptions, AltOptions} : MakeEdi(opts)
    \/ ParseEdi(DefaultOptions)

(* Sessions that emit a form with either record of delimiters. *)
SpecDelims == InitDelims /\ [][NextDelims]_vars

(* C6: for a form S and delimiter records D1 and D2, the bytes emitted     *)
(* with D1 are accepted by parse_edi, and make_edi with D2 of what it      *)
(* returns are the bytes make_edi(S, D2) emits.  Stated for forms without  *)
(* an interchange header.                                                  *)
C6_DelimiterIndependence ==
    \A k \in 1..Len(ops) :
        (/\ ops[k].fn = "make_edi" /\ k + 1 <= Len(ops)
         /\ ops[k + 1].fn = "parse_edi"
         /\ NoUNB(ValueBefore(k)))
        => /\ IsOk(vals[k + 1])
           /\ (k + 2 <= Len(ops) /\ ops[k + 2].fn = "make_edi")
              => vals[k + 2] = make_edi(ValueBefore(k), ops[k + 2].opts)

(* The same for the forms whose components hold the release character of   *)
(* neither record.                                                         *)
DelimiterIndependenceWithoutRelease ==
    \A k \in 1..Len(ops) :
        (/\ ops[k].fn = "make_edi" /\ k + 1 <= Len(ops)
         /\ ops[k + 1].fn = "parse_edi"
         /\ NoUNB(ValueBefore(k))
         /\ \A c \in Components(ValueBefore(k)) :
                ~Contains(c, DefaultOptions.release_char)
                /\ ~Contains(c, AltOptions.release_char))
        => /\ IsOk(vals[k + 1])
           /\ (k + 2 <= Len(ops) /\ ops[k + 2].fn = "make_edi")
              => vals[k + 2] = make_edi(ValueBefore(k), ops[k + 2].opts)

(* A component with each of the four meta-characters preceded by the       *)
(* release character.                                                      *)
RECURSIVE EscapeEveryMeta(_, _)
EscapeEveryMeta(c, o) ==
    IF c = <<>> THEN <<>>
    ELSE (IF c[1] \in {o.component_separator, o.dataelement_separator,
                       o.segment_terminator, o.release_char}
          THEN <<o.release_char, c[1]>> ELSE <<c[1]>>)
         \o EscapeEveryMeta(Tail(c), o)

(* C7: in the bytes make_edi emits, every component separator, data        *)
(* element separator, segment terminator and release character of a        *)
(* component is preceded by a release character, and parse_edi takes every *)
(* such escape away.  Stated for the forms of one data segment with one    *)
(* component.                                                              *)
C7_EveryMetaCharacterEscaped ==
    \A k \in 1..Len(ops) :
        (/\ Called(k, "make_edi")
         /\ Len(ValueBefore(k)) = 1
         /\ ValueBefore(k)[1][1] \in SEGMENTS \ {UNB}
         /\ Len(ValueBefore(k)[1][2]) = 1
         /\ Len(ValueBefore(k)[1][2][1]) = 1
         /\ IndexOf(ValueBefore(k)[1][2][1][1], UNB) = -1)
        => /\ vals[k] = Ok(UNAHeader \o ValueBefore(k)[1][1]
                           \o <<DATAELEMENT_SEPARATOR>>
                           \o EscapeEveryMeta(ValueBefore(k)[1][2][1][1],
                                              DefaultOptions)
                           \o <<SEGMENT_TERMINATOR>>)
           /\ Called(k + 1, "parse_edi")
              => vals[k + 1] = Ok(<<DefaultUNA>> \o ValueBefore(k))

-----------------------------------------------------------------------------
(* Lines of a message *)

HasHeader(B) == StartsWith(B, UNAHeader)

(* The bytes after the default service string advice. *)
Body(B) == IF HasHeader(B) THEN SubSeq(B, Len(UNAHeader) + 1, Len(B)) ELSE B

(* A message in the default delimiters without a release character. *)
PlainWire(B) ==
    /\ HasHeader(B) \/ ~StartsWith(B, UNA)
    /\ ~Contains(Body(B), RELEASE_CHAR)

Count(s, ch) == Cardinality({p \in 1..Len(s) : s[p] = ch})

(* The pieces of s between the occurrences of the character d. *)
RECURSIVE PlainSplit(_, _)
PlainSplit(s, d) ==
    IF IndexOf(s, <<d>>) = -1 THEN <<s>>
    ELSE <<SubSeq(s, 1, IndexOf(s, <<d>>))>>
         \o PlainSplit(SubSeq(s, IndexOf(s, <<d>>) + 2, Len(s)), d)

(* The terminated lines of a message. *)
WireLines(B) ==
    SubSeq(PlainSplit(Body(B), SEGMENT_TERMINATOR), 1,
           Count(Body(B), SEGMENT_TERMINATOR))

(* The number of segments before the first line. *)
Offset(B) == IF HasHeader(B) THEN 1 ELSE 0

(* C8: parse_edi keeps empty positions.  For a line without release        *)
(* characters, k data element separators after the tag separator give      *)
(* k + 1 data elements, m component separators in a data element give      *)
(* m + 1 components, and an empty position is the empty string.            *)
C8_EmptyPositionsKept ==
    (/\ input.type = "bytes" /\ Called(1, "parse_edi") /\ IsOk(vals[1])
     /\ PlainWire(input.val))
    => /\ Len(vals[1].val) = Len(WireLines(input.val)) + Offset(input.val)
       /\ \A i \in 1..Len(WireLines(input.val)) :
            LET line == WireLines(input.val)[i]
                rest == SubSeq(line, 5, Len(line))
                texts == PlainSplit(rest, DATAELEMENT_SEPARATOR)
                data_elements == vals[1].val[i + Offset(input.val)][2]
            IN  /\ Len(data_elements) = Count(rest, DATAELEMENT_SEPARATOR) + 1
                /\ \A d \in 1..Len(data_elements) :
                     /\ Len(data_elements[d])
                            = Count(texts[d], COMPONENT_SEPARATOR) + 1
                     /\ data_elements[d]
                            = PlainSplit(texts[d], COMPONENT_SEPARATOR)

(* A line with an empty data element at its end and a data element of two  *)
(* empty components was parsed.                                            *)
C8_Witness ==
    /\ input.type = "bytes" /\ Called(1, "parse_edi") /\ IsOk(vals[1])
    /\ PlainWire(input.val)
    /\ \E i \in DataSegments(vals[1].val) :
         LET data_elements == vals[1].val[i][2]
         IN  /\ Len(data_elements) >= 2
             /\ data_elements[Len(data_elements)] = <<<<>>>>
             /\ \E d \in 1..Len(data_elements) :
                    data_elements[d] = <<<<>>, <<>>>>

(* The first three characters of a line. *)
TagOf(line) == SubSeq(line, 1, IF Len(line) < 3 THEN Len(line) ELSE 3)

(* C9: parse_edi rejects a message with a line whose tag is not in         *)
(* SEGMENTS (other than UNA at index 0), so every tag it returns is in     *)
(* SEGMENTS or is UNA at index 0; make_edi raises for a form with a tag    *)
(* that is neither UNA nor in SEGMENTS.                                    *)
C9_OnlyRecognisedTags ==
    /\ \A k \in 1..Len(ops) :
         (ops[k].fn = "parse_edi" /\ IsOk(vals[k]))
         => \A i \in 1..Len(vals[k].val) :
              \/ vals[k].val[i][1] \in SEGMENTS
              \/ vals[k].val[i][1] = UNA /\ i = 1
    /\ (/\ input.type = "bytes" /\ Called(1, "parse_edi")
        /\ PlainWire(input.val)
        /\ \E i \in 1..Len(WireLines(input.val)) :
               TagOf(WireLines(input.val)[i]) \notin SEGMENTS)
       => ~IsOk(vals[1])
    /\ \A k \in 1..Len(ops) :
         (/\ ops[k].fn = "make_edi"
          /\ \E i \in 1..Len(ValueBefore(k)) :
                 ValueBefore(k)[i][1] \notin SEGMENTS \cup {UNA})
         => ~IsOk(vals[k])

(* A message whose second line has a tag outside SEGMENTS was rejected     *)
(* for it.                                                                 *)
C9_Witness ==
    /\ input.type = "bytes" /\ Called(1, "parse_edi")
    /\ PlainWire(input.val)
    /\ Len(WireLines(input.val)) = 2
    /\ TagOf(WireLines(input.val)[1]) \in SEGMENTS
    /\ TagOf(WireLines(input.val)[2]) = XYZ
    /\ vals[1].kind = "SyntaxError" /\ vals[1].msg = "unknown segment"

(* A line parse_edi reads to its end. *)
GoodLine(line) ==
    /\ Len(line) >= 4
    /\ line[4] = DATAELEMENT_SEPARATOR
    /\ TagOf(line) \in SEGMENTS

(* The first line that is not good has no data element separator as its    *)
(* fourth character.                                                       *)
FirstBadFourth(lines, i) ==
    /\ \A j \in 1..(i - 1) : GoodLine(lines[j])
    /\ ~StartsWith(lines[i], UNA)
    /\ Len(lines[i]) < 4 \/ lines[i][4] # DATAELEMENT_SEPARATOR

(* C10: for a line at index i that is not UNA and whose fourth character   *)
(* is not the data element separator (a line of fewer than four characters *)
(* included), parse_edi raises a syntax error that cites segment i + 1,    *)
(* before it looks the tag up.                                             *)
C10_FourthCharacterChecked ==
    (/\ input.type = "bytes" /\ Called(1, "parse_edi")
     /\ PlainWire(input.val)
     /\ IndexOf(input.val, UNB) = -1)
    => \A i \in 1..Len(WireLines(input.val)) :
        FirstBadFourth(WireLines(input.val), i)
        => /\ vals[1].kind = "SyntaxError"
           /\ vals[1].msg = "expected dataelement separator"
           /\ vals[1].seg = i + Offset(input.val)

(* The same for the lines of four characters or more. *)
FourthCharacterCheckedOnLongLines ==
    (/\ input.type = "bytes" /\ Called(1, "parse_edi")
     /\ PlainWire(input.val)
     /\ IndexOf(input.val, UNB) = -1)
    => \A i \in 1..Len(WireLines(input.val)) :
        (/\ FirstBadFourth(WireLines(input.val), i)
         /\ Len(WireLines(input.val)[i]) >= 4)
        => /\ vals[1].kind = "SyntaxError"
           /\ vals[1].msg = "expected dataelement separator"
           /\ vals[1].seg = i + Offset(input.val)

-----------------------------------------------------------------------------
(* Sessions of the annotator *)

ReportTags == {FTX, UNB}

ReportChars == {"A", "1"}

Report ==
    /\ CanCall("segments")
    /\ Record("report", DefaultOptions, report(Current, input.sd, input.ed))

MakeEdiXml ==
    /\ CanCall("segments")
    /\ Record("make_edi_xml", DefaultOptions,
              make_edi_xml(Current, input.sd, input.ed, EDIFACT))

InitReport ==
    /\ input = [type |-> "segments", val |-> <<>>, sd |-> SD, ed |-> ED]
    /\ size = 0
    /\ ops = <<>>
    /\ vals = <<>>

NextReport ==
    \/ \E tag \in ReportTags : AddSegment(tag)
    \/ AddUNA
    \/ AddElement
    \/ AddComponent(<<>>)
    \/ \E ch \in ReportChars : AddChar(ch)
    \/ Report
    \/ MakeEdiXml
    \/ MakeXml
    \/ ParseXml
    \/ MakeEdi(DefaultOptions)
    \/ ParseEdi(DefaultOptions)

(* Sessions that annotate a form with the dictionaries SD and ED. *)
SpecReport == InitReport /\ [][NextReport]_vars

(* The value has a UNA segment, line or child at an index greater than 0. *)
LaterUNA(type, value) ==
    CASE type = "segments" -> \E i \in 2..Len(value) : value[i][1] = UNA
      [] type = "xml" -> \E i \in 2..Len(value.children) :
                             value.children[i].tag = UNA
      [] type = "bytes" -> \E i \in 2..Len(Lines(value, DefaultOptions)) :
                               StartsWith(Lines(value, DefaultOptions)[i], UNA)
      [] OTHER -> FALSE

(* The type of the argument of call k. *)
TypeBefore(k) == IF k = 1 THEN input.type ELSE ResultType(ops[k - 1].fn)

(* C11: UNA occurs at most once and only at index 0.  parse_edi, make_edi, *)
(* make_xml, parse_xml and make_edi_xml each raise when their argument has *)
(* UNA at an index greater than 0, and what parse_edi returns has a UNA    *)
(* segment exactly when the text begins with UNA, then only at index 0.    *)
C11_UNAOnlyAtIndex0 ==
    \A k \in 1..Len(ops) :
        /\ (/\ ops[k].fn \in {"parse_edi", "make_edi", "make_xml", "parse_xml",
                              "make_edi_xml"}
            /\ LaterUNA(TypeBefore(k), ValueBefore(k)))
           => ~IsOk(vals[k])
        /\ (ops[k].fn = "parse_edi" /\ IsOk(vals[k]))
           => /\ UNAOnlyFirst(vals[k].val)
              /\ (vals[k].val # <<>> /\ vals[k].val[1][1] = UNA)
                 <=> StartsWith(ValueBefore(k), UNA)

(* The same without make_edi_xml. *)
UNAOnlyAtIndex0OutsideAnnotator ==
    \A k \in 1..Len(ops) :
        /\ (/\ ops[k].fn \in {"parse_edi", "make_edi", "make_xml", "parse_xml"}
            /\ LaterUNA(TypeBefore(k), ValueBefore(k)))
           => ~IsOk(vals[k])
        /\ (ops[k].fn = "parse_edi" /\ IsOk(vals[k]))
           => /\ UNAOnlyFirst(vals[k].val)
              /\ (vals[k].val # <<>> /\ vals[k].val[1][1] = UNA)
                 <=> StartsWith(ValueBefore(k), UNA)

-----------------------------------------------------------------------------
(* Sessions on the delimiter record: one call of parse_edi on a message    *)
(* that begins with a service string advice, or of make_edi on a form,     *)
(* with a record of the caller.                                            *)

(* The advice of AltOptions. *)
AltHeader == UNA \o <<DATAELEMENT_SEPARATOR, COMPONENT_SEPARATOR, ",", "A",
                      SPACE, RELEASE_CHAR>>

(* An advice whose fifth character is not the space. *)
LetterHeader == UNA \o <<COMPONENT_SEPARATOR, DATAELEMENT_SEPARATOR, DECIMAL_MARK,
                         RELEASE_CHAR, "A", SEGMENT_TERMINATOR>>

(* An advice whose two separators are the same character. *)
TwinHeader == UNA \o <<COMPONENT_SEPARATOR, COMPONENT_SEPARATOR, DECIMAL_MARK,
                       RELEASE_CHAR, SPACE, SEGMENT_TERMINATOR>>

(* An advice whose release character is the space. *)
BlankHeader == UNA \o <<COMPONENT_SEPARATOR, DATAELEMENT_SEPARATOR, DECIMAL_MARK,
                        SPACE, SPACE, SEGMENT_TERMINATOR>>

(* An advice whose fifth character is the release character. *)
EscHeader == UNA \o <<COMPONENT_SEPARATOR, DATAELEMENT_SEPARATOR, DECIMAL_MARK,
                      RELEASE_CHAR, RELEASE_CHAR, SEGMENT_TERMINATOR>>

Headers == {UNAHeader, AltHeader, LetterHeader, TwinHeader, BlankHeader, EscHeader}

(* A record whose segment terminator is its component separator. *)
TermOptions == [DefaultOptions EXCEPT !.segment_terminator = COMPONENT_SEPARATOR]

(* A record whose component separator is the space. *)
SpaceOptions == [DefaultOptions EXCEPT !.component_separator = SPACE]

HeaderOptions == {DefaultOptions, AltOptions, TermOptions, SpaceOptions}

HeaderTokens == {<<COMPONENT_SEPARATOR>>, <<DATAELEMENT_SEPARATOR>>,
                 <<SEGMENT_TERMINATOR>>, <<RELEASE_CHAR>>, <<"A">>,
                 FTX, FTX \o <<DATAELEMENT_SEPARATOR>>, UNA}

InitHeader ==
    /\ input \in {[type |-> "segments", val |-> <<>>],
                  [type |-> "bytes", val |-> <<>>]}
                 \cup {[type |-> "bytes", val |-> h] : h \in Headers}
    /\ size = 0
    /\ ops = <<>>
    /\ vals = <<>>

NextHeader ==
    \/ AddSegment(FTX)
    \/ AddElement
    \/ AddComponent(<<>>)
    \/ \E ch \in {"A", SPACE, COMPONENT_SEPARATOR} : AddChar(ch)
    \/ \E t \in HeaderTokens : AddToken(t)
    \/ \E opts \in HeaderOptions : ops = <<>> /\ MakeEdi(opts)
    \/ \E opts \in HeaderOptions : ops = <<>> /\ ParseEdi(opts)

SpecHeader == InitHeader /\ [][NextHeader]_vars

(* The message begins with UNA and six characters. *)
HasAdvice(B) == StartsWith(B, UNA) /\ Len(B) >= 9

(* The delimiter record in effect for call k, with the reserved space: for *)
(* parse_edi the six characters of the advice when the message has one.    *)
Effective(k) ==
    IF ops[k].fn = "parse_edi" /\ HasAdvice(ValueBefore(k))
    THEN [component_separator |-> ValueBefore(k)[4],
          dataelement_separator |-> ValueBefore(k)[5],
          decimal_mark |-> ValueBefore(k)[6],
          release_char |-> ValueBefore(k)[7],
          reserved_space |-> ValueBefore(k)[8],
          segment_terminator |-> ValueBefore(k)[9],
          newline |-> ops[k].opts.newline,
          carriage_return |-> ops[k].opts.carriage_return]
    ELSE [component_separator |-> ops[k].opts.component_separator,
          dataelement_separator |-> ops[k].opts.dataelement_separator,
          decimal_mark |-> ops[k].opts.decimal_mark,
          release_char |-> ops[k].opts.release_char,
          reserved_space |-> SPACE,
          segment_terminator |-> ops[k].opts.segment_terminator,
          newline |-> ops[k].opts.newline,
          carriage_return |-> ops[k].opts.carriage_return]

Distinct(chars) == Cardinality({chars[i] : i \in 1..Len(chars)}) = Len(chars)

(* The first five characters of the record and the two line breaks. *)
FirstFiveDistinct(e) ==
    Distinct(<<e.component_separator, e.dataelement_separator, e.decimal_mark,
               e.release_char, e.reserved_space, e.newline, e.carriage_return>>)

(* The five delimiters of the record and the two line breaks. *)
DelimitersDistinct(e) ==
    Distinct(<<e.component_separator, e.dataelement_separator, e.decimal_mark,
               e.release_char, e.segment_terminator, e.newline,
               e.carriage_return>>)

(* The call has a delimiter record: parse_edi on a message that begins     *)
(* with UNA needs the six characters after it.                             *)
HasRecord(k) ==
    /\ ops[k].fn \in {"parse_edi", "make_edi"}
    /\ ops[k].fn = "parse_edi" /\ StartsWith(ValueBefore(k), UNA)
       => HasAdvice(ValueBefore(k))

C13_AdviceOverridesArguments ==
    \A k \in 1..Len(ops) :
        (ops[k].fn = "parse_edi" /\ HasAdvice(ValueBefore(k)) /\ IsOk(vals[k]))
        => /\ vals[k] = parse_edi(ValueBefore(k),
                            [DefaultOptions EXCEPT
                                !.component_separator = ValueBefore(k)[4],
                                !.dataelement_separator = ValueBefore(k)[5],
                                !.decimal_mark = ValueBefore(k)[6],
                                !.release_char = ValueBefore(k)[7],
                                !.segment_terminator = ValueBefore(k)[9]])
           /\ vals[k].val # <<>>
           /\ vals[k].val[1]
                = <<UNA, [i \in 1..6 |-> <<ValueBefore(k)[3 + i]>>]>>

(* The same for an advice whose fifth character is the space and whose     *)
(* release character is not. *)
AdviceOverridesArgumentsWithSpace ==
    \A k \in 1..Len(ops) :
        (/\ ops[k].fn = "parse_edi" /\ HasAdvice(ValueBefore(k)) /\ IsOk(vals[k])
         /\ ValueBefore(k)[8] = SPACE /\ ValueBefore(k)[7] # SPACE)
        => /\ vals[k] = parse_edi(ValueBefore(k),
                            [DefaultOptions EXCEPT
                                !.component_separator = ValueBefore(k)[4],
                                !.dataelement_separator = ValueBefore(k)[5],
                                !.decimal_mark = ValueBefore(k)[6],
                                !.release_char = ValueBefore(k)[7],
                                !.segment_terminator = ValueBefore(k)[9]])
           /\ vals[k].val # <<>>
           /\ vals[k].val[1]
                = <<UNA, [i \in 1..6 |-> <<ValueBefore(k)[3 + i]>>]>>

-----------------------------------------------------------------------------
(* Sessions on the syntax identifier: one call of parse_edi on a message   *)
(* with interchange headers and identifiers, with a default of the table   *)
(* or one outside it.                                                      *)

UNOQ == UNO \o <<"Q">>

(* A record whose default identifier is not in the table. *)
UnknownDefault == [DefaultOptions EXCEPT !.default_encoding = UNOQ]

(* A record whose default identifier is the two-byte one. *)
WideDefault == [DefaultOptions EXCEPT !.default_encoding = UNOW]

SniffTokens == {UNB \o <<DATAELEMENT_SEPARATOR>>, UNB, UNOY, UNOW, UNOQ, UNO,
                FTX \o <<DATAELEMENT_SEPARATOR>>, <<SEGMENT_TERMINATOR>>, <<"A">>}

InitSniff ==
    /\ input \in {[type |-> "bytes", val |-> <<>>],
                  [type |-> "bytes", val |-> UNAHeader]}
    /\ size = 0
    /\ ops = <<>>
    /\ vals = <<>>

NextSniff ==
    \/ \E t \in SniffTokens : AddToken(t)
    \/ \E opts \in {DefaultOptions, UnknownDefault, WideDefault} :
            ops = <<>> /\ ParseEdi(opts)

SpecSniff == InitSniff /\ [][NextSniff]_vars

(* The first UNB of the message, counted from 0; -1 without one. *)
HeaderOffset(B) == IndexOf(B, UNB)

(* The four bytes at the first UNO at or after the first UNB (fewer at the *)
(* end of the message, none without a UNO).                                *)
HeaderIdentifier(B) ==
    LET rest == SubSeq(B, HeaderOffset(B) + 1, Len(B))
        at == IndexOf(rest, UNO)
    IN  IF at < 0 THEN <<>>
        ELSE SubSeq(rest, at + 1, IF at + 4 <= Len(rest) THEN at + 4 ELSE Len(rest))

(* The identifier of the message: the one of the header when there is a    *)
(* UNB at any offset, the default of the caller otherwise.                 *)
Identifier(B, o) ==
    IF HeaderOffset(B) >= 0 THEN HeaderIdentifier(B) ELSE o.default_encoding

(* C14: parse_edi decodes with the identifier of the interchange header    *)
(* whenever UNB occurs in the bytes, at any offset, 0 included: the four   *)
(* bytes at the first UNO at or after the first UNB; it decodes with the   *)
(* default only when there is no UNB; an identifier outside the table is   *)
(* an error.                                                               *)
C14_IdentifierFromHeader ==
    \A k \in 1..Len(ops) :
        ops[k].fn = "parse_edi"
        => LET B == ValueBefore(k)
               uno == Identifier(B, ops[k].opts)
           IN  /\ uno \notin ENCODINGS => ~IsOk(vals[k])
               /\ uno \in ENCODINGS => vals[k] = ParseContent(B, uno, ops[k].opts)

(* The same for a message whose first UNB is not at the offset 0. *)
IdentifierFromHeaderAfterOffset0 ==
    \A k \in 1..Len(ops) :
        (ops[k].fn = "parse_edi" /\ HeaderOffset(ValueBefore(k)) # 0)
        => LET B == ValueBefore(k)
               uno == Identifier(B, ops[k].opts)
           IN  /\ uno \notin ENCODINGS => ~IsOk(vals[k])
               /\ uno \in ENCODINGS => vals[k] = ParseContent(B, uno, ops[k].opts)

-----------------------------------------------------------------------------
(* Sessions on the flags of make_edi: a form, with or without a UNA        *)
(* segment at index 0, is emitted with one combination of with_una,        *)
(* with_newline and with_carriage_return in the default or the alternate   *)
(* delimiters, parsed with the same delimiters and emitted again.          *)

(* The body of a UNA segment that is not the one of any header. *)
OtherBody == <<<<"A">>>>

FlagChars == {"A", COMPONENT_SEPARATOR, SEGMENT_TERMINATOR}

FlagOptions ==
    {[base EXCEPT !.with_una = u, !.with_newline = n, !.with_carriage_return = c]
        : base \in {DefaultOptions, AltOptions}, u \in BOOLEAN, n \in BOOLEAN,
          c \in BOOLEAN}

(* The record without the flags. *)
Base(o) == [o EXCEPT !.with_una = TRUE, !.with_newline = FALSE,
                     !.with_carriage_return = FALSE]

(* The record without line breaks. *)
Unbroken(o) == [o EXCEPT !.with_newline = FALSE, !.with_carriage_return = FALSE]

(* A UNA segment at index 0. *)
AddAdvice(body) ==
    /\ Building("segments")
    /\ input.val = <<>>
    /\ Assemble(<<<<UNA, body>>>>, 1)

InitFlags ==
    /\ input = [type |-> "segments", val |-> <<>>]
    /\ size = 0
    /\ ops = <<>>
    /\ vals = <<>>

NextFlags ==
    \/ \E body \in {DefaultUNA[2], OtherBody} : AddAdvice(body)
    \/ AddSegment(FTX)
    \/ AddElement
    \/ \E c \in {<<>>, UNB} : AddComponent(c)
    \/ \E ch \in FlagChars : AddChar(ch)
    \/ \E opts \in FlagOptions :
            /\ IF ops = <<>> THEN TRUE ELSE ops[1].opts = opts
            /\ MakeEdi(opts)
    \/ \E opts \in {DefaultOptions, AltOptions} :
            /\ IF ops = <<>> THEN FALSE ELSE Base(ops[1].opts) = opts
            /\ ParseEdi(opts)

SpecFlags == InitFlags /\ [][NextFlags]_vars

(* The form without a UNA segment at index 0. *)
WithoutAdvice(S) == IF S # <<>> /\ S[1][1] = UNA THEN SubSeq(S, 2, Len(S)) ELSE S

(* The UNA header of a delimiter record. *)
HeaderOf(o) == UNA \o <<o.component_separator, o.dataelement_separator,
                        o.decimal_mark, o.release_char, SPACE, o.segment_terminator>>

(* C15: the bytes make_edi returns begin with the UNA header of its         *)
(* delimiter arguments, once, when with_una is true, and with no UNA when   *)
(* it is false, whether the form has a UNA segment at index 0 or not; the   *)
(* body of that segment does not reach the bytes, which are those of the    *)
(* form without it.                                                         *)
C15_HeaderFromArguments ==
    \A k \in 1..Len(ops) :
        (ops[k].fn = "make_edi" /\ IsOk(vals[k]))
        => LET S == ValueBefore(k)
               o == ops[k].opts
               body == make_edi(WithoutAdvice(S), [o EXCEPT !.with_una = FALSE])
           IN  /\ IsOk(body)
               /\ ~StartsWith(body.val, UNA)
               /\ o.with_una => vals[k].val = HeaderOf(o) \o LineBreak(o) \o body.val
               /\ ~o.with_una => vals[k].val = body.val

(* make_edi returned a header of the alternate delimiters for a form whose *)
(* UNA segment has another body, and data after it.                        *)
C15_Witness ==
    /\ Len(ops) = 1 /\ ops[1].fn = "make_edi" /\ IsOk(vals[1])
    /\ ops[1].opts.with_una /\ ops[1].opts.component_separator # COMPONENT_SEPARATOR
    /\ Len(input.val) > 1 /\ input.val[1] = <<UNA, OtherBody>>
    /\ Len(vals[1].val) > Len(HeaderOf(ops[1].opts))

(* make_edi at call k and parse_edi at call k + 1, with the delimiters of  *)
(* the default record.                                                     *)
EmittedAndParsed(k) ==
    /\ k + 1 <= Len(ops)
    /\ ops[k].fn = "make_edi" /\ IsOk(vals[k])
    /\ Base(ops[k].opts) = DefaultOptions
    /\ ops[k + 1] = Call("parse_edi", DefaultOptions)

(* parse_edi of the bytes make_edi returns without line breaks. *)
ParsedUnbroken(k) ==
    LET B == make_edi(ValueBefore(k), Unbroken(ops[k].opts))
    IN  IF IsOk(B) THEN parse_edi(B.val, DefaultOptions) ELSE B

(* C16: for every form S and every combination of with_newline and         *)
(* with_carriage_return, the carriage return without the newline included, *)
(* parse_edi(make_edi(S, flags)) returns what parse_edi(make_edi(S))       *)
(* returns.  Stated for the forms whose emission without line breaks is    *)
(* accepted.                                                               *)
C16_LineBreaksAreNotData ==
    \A k \in 1..Len(ops) :
        (EmittedAndParsed(k) /\ IsOk(ParsedUnbroken(k)))
        => vals[k + 1] = ParsedUnbroken(k)

(* The same for the combinations that have the newline. *)
NewlinesAreNotData ==
    \A k \in 1..Len(ops) :
        (/\ EmittedAndParsed(k) /\ IsOk(ParsedUnbroken(k))
         /\ ops[k].opts.with_carriage_return => ops[k].opts.with_newline)
        => vals[k + 1] = ParsedUnbroken(k)

(* The canonical subset for a delimiter record: recognised tags, a data    *)
(* element in every data segment, a component in every data element, no    *)
(* release character of the record in a component.                         *)
Canonical(S, o) ==
    /\ RecognisedTags(S)
    /\ CanonicalShape(S)
    /\ \A c \in Components(S) : ~Contains(c, o.release_char)

(* Calls k, k + 1, k + 2 are make_edi without header, parse_edi with the   *)
(* same delimiters, make_edi as before (when the session has come to it),  *)
(* on a form of the canonical subset.                                      *)
HeaderlessRoundTrip(k) ==
    /\ k + 1 <= Len(ops)
    /\ ops[k].fn = "make_edi" /\ IsOk(vals[k]) /\ ~ops[k].opts.with_una
    /\ ops[k + 1] = Call("parse_edi", Base(ops[k].opts))
    /\ k + 2 <= Len(ops) => ops[k + 2] = ops[k]
    /\ Canonical(ValueBefore(k), ops[k].opts)

HasUNASegment(S) == \E i \in 1..Len(S) : S[i][1] = UNA

(* C18: parse_edi of a message without a leading UNA reads it with the     *)
(* delimiters of the caller and returns no UNA segment; for every          *)
(* B = make_edi(S, with_una=false) with S in the canonical subset,         *)
(* make_edi(parse_edi(B), with_una=false) = B, and B has no UNA header.    *)
C18_HeaderlessRoundTrip ==
    \A k \in 1..Len(ops) :
        /\ (ops[k].fn = "parse_edi" /\ IsOk(vals[k]) /\ ~StartsWith(ValueBefore(k), UNA))
           => ~HasUNASegment(vals[k].val)
        /\ HeaderlessRoundTrip(k)
           => /\ ~StartsWith(vals[k].val, UNA)
              /\ IsOk(vals[k + 1])
              /\ k + 2 <= Len(ops) => vals[k + 2] = vals[k]

(* The same for the forms without the letters of an interchange header,    *)
(* emitted without a carriage return or with the newline after it.         *)
HeaderlessRoundTripWithoutUNB ==
    \A k \in 1..Len(ops) :
        /\ (ops[k].fn = "parse_edi" /\ IsOk(vals[k]) /\ ~StartsWith(ValueBefore(k), UNA))
           => ~HasUNASegment(vals[k].val)
        /\ (/\ HeaderlessRoundTrip(k) /\ NoUNB(ValueBefore(k))
            /\ ops[k].opts.with_carriage_return => ops[k].opts.with_newline)
           => /\ ~StartsWith(vals[k].val, UNA)
              /\ IsOk(vals[k + 1])
              /\ k + 2 <= Len(ops) => vals[k + 2] = vals[k]

-----------------------------------------------------------------------------
(* Sessions that emit a parsed message again: parse_edi on a message,      *)
(* make_edi of the form with the newline flag in the default or the        *)
(* alternate delimiters, parse_edi of the bytes.                           *)

ReemitTokens == {FTX \o <<DATAELEMENT_SEPARATOR>>, <<"A">>, <<"B">>,
                 <<SEGMENT_TERMINATOR>>, <<COMPONENT_SEPARATOR>>,
                 <<DATAELEMENT_SEPARATOR>>, <<RELEASE_CHAR>>}

ReemitOptions == {[DefaultOptions EXCEPT !.with_newline = TRUE],
                  [AltOptions EXCEPT !.with_newline = TRUE]}

InitReemit ==
    /\ input \in {[type |-> "bytes", val |-> <<>>],
                  [type |-> "bytes", val |-> UNAHeader]}
    /\ size = 0
    /\ ops = <<>>
    /\ vals = <<>>

NextReemit ==
    \/ \E t \in ReemitTokens : AddToken(t)
    \/ ParseEdi(DefaultOptions)
    \/ \E opts \in ReemitOptions : MakeEdi(opts)

SpecReemit == InitReemit /\ [][NextReemit]_vars

(* Calls k, k + 1, k + 2 are parse_edi, which accepts, make_edi with the   *)
(* newline flag, which returns, and parse_edi.                             *)
Reemitted(k) ==
    /\ k + 2 <= Len(ops)
    /\ Called(k, "parse_edi") /\ IsOk(vals[k])
    /\ ops[k + 1].fn = "make_edi" /\ ops[k + 1].opts.with_newline
    /\ IsOk(vals[k + 1])
    /\ Called(k + 2, "parse_edi")

(* The data segments of a form, in order. *)
DataOf(S) == SelectSeq(S, LAMBDA seg : seg[1] # UNA)

(* C17: for every B parse_edi accepts and every delimiter record D,        *)
(* parse_edi(make_edi(parse_edi(B), D, with_newline=true)) returns the     *)
(* form parse_edi(B) returns.  Stated for the data segments of the two     *)
(* forms: the UNA segment of the second is the one of D.                   *)
C17_ReemittedInOtherDelimiters ==
    \A k \in 1..Len(ops) :
        Reemitted(k)
        => /\ IsOk(vals[k + 2])
           /\ DataOf(vals[k + 2].val) = DataOf(vals[k].val)

(* The same for forms whose components hold no release character, neither *)
(* the one of B nor the one of D.                                          *)
ReemittedWithoutRelease ==
    \A k \in 1..Len(ops) :
        (/\ Reemitted(k)
         /\ \A c \in Components(vals[k].val) :
                ~Contains(c, RELEASE_CHAR) /\ ~Contains(c, ops[k + 1].opts.release_char))
        => /\ IsOk(vals[k + 2])
           /\ DataOf(vals[k + 2].val) = DataOf(vals[k].val)

-----------------------------------------------------------------------------
-----------------------------------------------------------------------------
(* The empty components report pairs with a mandatory row.                 *)

(* The row the data element d (from 1) of a table is found by, 0 without   *)
(* one.                                                                    *)
FoundBy(table, d) == StartOf(table, Dec(d * 10)) + 1

(* The data element is found by a composite header row. *)
UnderComposite(table, d) == table[FoundBy(table, d)].representation = None

(* The row (from 1) report pairs component c of data element d with; it    *)
(* may lie after the table.                                                *)
PairedRow(table, d, c) ==
    FoundBy(table, d) + (IF UnderComposite(table, d) THEN 1 ELSE 0) + c - 1

(* The positions <<i, d, c>> of the empty components of S that report      *)
(* pairs with a row marked 'M'.                                            *)
EmptyMandatory(S, sd) ==
    {p \in UNION {UNION {{<<i, d, c>> : c \in 1..Len(S[i][2][d])}
                         : d \in 1..Len(S[i][2])}
                  : i \in {j \in 1..Len(S) : S[j][1] \in DOMAIN sd}} :
        LET table == sd[S[p[1]][1]].table
        IN  /\ FoundBy(table, p[2]) > 0
            /\ PairedRow(table, p[2], p[3]) <= Len(table)
            /\ table[PairedRow(table, p[2], p[3])].mc = "M"
            /\ S[p[1]][2][p[2]][p[3]] = <<>>}

(* The error line of a position. *)
ErrorLine(S, sd, p) ==
    MissingMandatory(sd[S[p[1]][1]].table[PairedRow(sd[S[p[1]][1]].table, p[2], p[3])].code,
                     S[p[1]][1])

(* The number of places of the text where the line stands. *)
Occurrences(text, line) ==
    Cardinality({q \in 1..Len(text) :
                    q + Len(line) - 1 <= Len(text)
                    /\ SubSeq(text, q, q + Len(line) - 1) = line})

(* C20 as stated: for every empty component that report pairs with a row   *)
(* marked 'M', the data element simple or under a composite header row,    *)
(* the text report returns has the missing-mandatory error line of the     *)
(* row.                                                                    *)
C20_EveryMissingMandatoryReported ==
    \A k \in 1..Len(ops) :
        (ops[k].fn = "report" /\ IsOk(vals[k]))
        => \A p \in EmptyMandatory(ValueBefore(k), input.sd) :
              Occurrences(vals[k].val, ErrorLine(ValueBefore(k), input.sd, p)) > 0

(* C20, amended: the text report returns has one missing-mandatory error   *)
(* line for every empty component paired with a row marked 'M' in a data   *)
(* element that is found by a row with a representation (a simple data     *)
(* element), and none for the components of a data element found by a      *)
(* composite header row.                                                   *)
C20_MissingMandatoryOfSimpleReported ==
    \A k \in 1..Len(ops) :
        (ops[k].fn = "report" /\ IsOk(vals[k]))
        => LET S == ValueBefore(k)
               simple == {p \in EmptyMandatory(S, input.sd) :
                             ~UnderComposite(input.sd[S[p[1]][1]].table, p[2])}
           IN  \A i \in 1..Len(S), code \in DOMAIN input.ed :
                   Occurrences(vals[k].val, MissingMandatory(code, S[i][1]))
                     = Cardinality({p \in simple :
                                       /\ S[p[1]][1] = S[i][1]
                                       /\ ErrorLine(S, input.sd, p)
                                            = MissingMandatory(code, S[i][1])})

(* report returned a text for a form with an empty mandatory component in  *)
(* a simple data element and one under a composite header row.             *)
C20_Witness ==
    /\ Len(ops) = 1 /\ ops[1].fn = "report" /\ IsOk(vals[1])
    /\ \E p, q \in EmptyMandatory(input.val, input.sd) :
          /\ ~UnderComposite(input.sd[input.val[p[1]][1]].table, p[2])
          /\ UnderComposite(input.sd[input.val[q[1]][1]].table, q[2])
          /\ Occurrences(vals[1].val, ErrorLine(input.val, input.sd, p)) > 0

-----------------------------------------------------------------------------
(* C21: the annotator never aborts on a dictionary mismatch.  For every    *)
(* form with recognised tags, report returns a text and make_edi_xml       *)
(* returns a tree, also when a tag is not in sd, a data element has no row *)
(* with its pos, a code is not in ed or a component is paired with a       *)
(* composite header row.                                                   *)
C21_AnnotatorNeverAborts ==
    \A k \in 1..Len(ops) :
        (/\ ops[k].fn \in {"report", "make_edi_xml"}
         /\ RecognisedTags(ValueBefore(k))
         /\ ValueBefore(k) # <<>> => ValueBefore(k)[1][1] \in SEGMENTS \cup {UNA})
        => IsOk(vals[k])

(* report alone does not abort on a tag that is not in sd: a form whose    *)
(* data segments have no data element gets a text.                         *)
ReportOfBareSegments ==
    \A k \in 1..Len(ops) :
        (/\ ops[k].fn = "report"
         /\ \A i \in DataSegments(ValueBefore(k)) : ValueBefore(k)[i][2] = <<>>)
        => IsOk(vals[k])

-----------------------------------------------------------------------------
(* The tree of make_edi_xml without its attributes. *)

StripComponent(e) == Element(e.tag, e.text, <<>>)

StripDataElement(e) ==
    Element(e.tag, e.text, [c \in 1..Len(e.children) |-> StripComponent(e.children[c])])

StripSegment(e) ==
    Element(e.tag, e.text,
            [d \in 1..Len(e.children) |-> StripDataElement(e.children[d])])

Strip(root) ==
    Element(root.tag, root.text,
            [s \in 1..Len(root.children) |-> StripSegment(root.children[s])])

(* The positions <<i, d, c>> of the non-empty components of S that are     *)
(* paired with a row whose code has a code table without the component.    *)
CustomCodes(S, sd, ed) ==
    {p \in UNION {UNION {{<<i, d, c>> : c \in 1..Len(S[i][2][d])}
                         : d \in 1..Len(S[i][2])}
                  : i \in {j \in 1..Len(S) : S[j][1] \in DOMAIN sd}} :
        LET table == sd[S[p[1]][1]].table
            component == S[p[1]][2][p[2]][p[3]]
        IN  /\ FoundBy(table, p[2]) > 0
            /\ PairedRow(table, p[2], p[3]) <= Len(table)
            /\ component # <<>>
            /\ table[PairedRow(table, p[2], p[3])].code \in DOMAIN ed
            /\ "table" \in DOMAIN ed[table[PairedRow(table, p[2], p[3])].code]
            /\ component \notin DOMAIN ed[table[PairedRow(table, p[2], p[3])].code].table}

(* make_edi_xml refines make_xml on the form S with the tree it returned. *)
Refines(S, tree, sd, ed) ==
    LET plain == make_xml(S, EDIFACT)
    IN  /\ plain = Ok(Strip(tree))
        /\ parse_xml(tree) = parse_xml(plain.val)
        /\ \A p \in CustomCodes(S, sd, ed) :
              LET attrib == tree.children[p[1]].children[p[2]].children[p[3]].attrib
              IN  /\ "value" \in DOMAIN attrib
                  /\ attrib["value"] = <<"CUSTOM CODE">>
                  /\ "description" \notin DOMAIN attrib

(* C22: whenever make_edi_xml(S, sd, ed) returns, its tree without the     *)
(* attributes is the tree of make_xml(S) (tags, nesting, order, text), so  *)
(* parse_xml returns the same for both; a non-empty component whose code   *)
(* has a code table without it has value 'CUSTOM CODE' and no description. *)
C22_AnnotatedRefinesPlain ==
    \A k \in 1..Len(ops) :
        (ops[k].fn = "make_edi_xml" /\ IsOk(vals[k]))
        => Refines(ValueBefore(k), vals[k].val, input.sd, input.ed)

(* The same for the forms that have no UNA segment after index 0. *)
AnnotatedRefinesPlainWithUNAFirst ==
    \A k \in 1..Len(ops) :
        (/\ ops[k].fn = "make_edi_xml" /\ IsOk(vals[k])
         /\ \A i \in 2..Len(ValueBefore(k)) : ValueBefore(k)[i][1] # UNA)
        => Refines(ValueBefore(k), vals[k].val, input.sd, input.ed)

(* make_edi_xml has returned a tree for a form with such a component. *)
AnnotatedWithCustomCode ==
    /\ Len(ops) = 1 /\ ops[1].fn = "make_edi_xml" /\ IsOk(vals[1])
    /\ CustomCodes(input.val, input.sd, input.ed) # {}

-----------------------------------------------------------------------------
(* Sessions on the representation check: report on a form against a table  *)
(* of one simple row, of one of the representations.                       *)

Representations == {<<"a", "1">>, <<"a", ".", ".", "2">>, <<"n", "2">>,
                    <<"n", ".", ".", "2">>, <<"a", "n", ".", ".", "1">>}

ReprChars == {"A", "1", "."}

(* A segment dictionary whose FTX table is one row of the representation. *)
ReprSD(representation) ==
    (FTX :> [name |-> <<"FREE TEXT">>,
             description |-> <<"To provide free form or coded text information.">>,
             table |-> <<Row(<<"0", "1", "0">>, <<"1131">>,
                             <<"Code list identification code">>,
                             representation, "C", <<"1">>)>>])

InitRepr ==
    /\ input \in {[type |-> "segments", val |-> <<>>, sd |-> ReprSD(r), ed |-> ED]
                     : r \in Representations}
    /\ size = 0
    /\ ops = <<>>
    /\ vals = <<>>

NextRepr ==
    \/ AddSegment(FTX)
    \/ AddElement
    \/ AddComponent(<<>>)
    \/ \E ch \in ReprChars : AddChar(ch)
    \/ Report

SpecRepr == InitRepr /\ [][NextRepr]_vars

(* Letters only. *)
LettersOnly(component) ==
    \A i \in 1..Len(component) : component[i] \notin Digits \cup {".", ","}

(* The whole component is optional digits, an optional decimal point or    *)
(* comma, then digits.                                                     *)
WholeNumeric(component) ==
    \E sep \in 0..Len(component) :
        /\ sep < Len(component)
        /\ \A i \in 1..Len(component) : i # sep => component[i] \in Digits
        /\ sep > 0 => component[sep] \in {".", ","}

(* The component breaks the rule of the representation. *)
Violates(component, representation) ==
    LET class == ReprType(representation)
        N == IntOf(ReprDigits(representation))
    IN  \/ class = <<"a">> /\ ~LettersOnly(component)
        \/ class = <<"n">> /\ ~WholeNumeric(component)
        \/ IF IndexOf(representation, <<".", ".">>) >= 0
           THEN Len(component) > N ELSE Len(component) # N

(* The representations of the rows report pairs a non-empty component of   *)
(* S with, each with the component.                                        *)
Checked(S, sd) ==
    {<<S[p[1]][2][p[2]][p[3]],
       sd[S[p[1]][1]].table[PairedRow(sd[S[p[1]][1]].table, p[2], p[3])].representation>>
        : p \in {q \in UNION {UNION {{<<i, d, c>> : c \in 1..Len(S[i][2][d])}
                                     : d \in 1..Len(S[i][2])}
                              : i \in {j \in 1..Len(S) : S[j][1] \in DOMAIN sd}} :
                    /\ FoundBy(sd[S[q[1]][1]].table, q[2]) > 0
                    /\ PairedRow(sd[S[q[1]][1]].table, q[2], q[3])
                         <= Len(sd[S[q[1]][1]].table)
                    /\ S[q[1]][2][q[2]][q[3]] # <<>>}}

(* The text has a representation error line. *)
HasReprError(text) == Contains(text, "    ERROR:")

(* C23: report emits a representation error line for a non-empty component *)
(* if and only if the component breaks the rule of the row it is paired    *)
(* with: letters only for the class a; for the class n the whole component *)
(* optional digits, an optional point or comma, then digits; anything for  *)
(* an; at most N characters for ..N and N characters for N.  Stated for    *)
(* the text as a whole: it has such a line exactly when some component     *)
(* breaks its rule.                                                        *)
C23_ReprErrorIffViolation ==
    \A k \in 1..Len(ops) :
        (ops[k].fn = "report" /\ IsOk(vals[k]))
        => (HasReprError(vals[k].val)
            <=> \E cr \in Checked(ValueBefore(k), input.sd) : Violates(cr[1], cr[2]))

(* The same for the rows of the classes a and an. *)
ReprErrorIffViolationOutsideNumeric ==
    \A k \in 1..Len(ops) :
        (/\ ops[k].fn = "report" /\ IsOk(vals[k])
         /\ \A cr \in Checked(ValueBefore(k), input.sd) : ReprType(cr[2]) # <<"n">>)
        => (HasReprError(vals[k].val)
            <=> \E cr \in Checked(ValueBefore(k), input.sd) : Violates(cr[1], cr[2]))

(* An error line is there only for a component that breaks its rule. *)
ReprErrorOnlyForViolation ==
    \A k \in 1..Len(ops) :
        (ops[k].fn = "report" /\ IsOk(vals[k]))
        => (HasReprError(vals[k].val)
            => \E cr \in Checked(ValueBefore(k), input.sd) : Violates(cr[1], cr[2]))

-----------------------------------------------------------------------------
(* Sessions on the selection of the row of a data element: report and      *)
(* make_edi_xml on a segment of empty slots against a table of positions   *)
(* 010, 020, ... in increasing order, written with three or four digits,   *)
(* of simple rows or of composite header rows with one component row each. *)

MaxRows == 11

(* pos of position j (from 1), padded with zeros to the width. *)
RECURSIVE Pad(_, _)
Pad(s, width) == IF Len(s) >= width THEN s ELSE Pad(<<"0">> \o s, width)

PosOf(j, width) == Pad(Dec(j * 10), width)

(* The code of the row of position j and of the component row under it. *)
CodeOf(j) == <<"E">> \o Dec(j)

SubCodeOf(j) == <<"S">> \o Dec(j)

PosRows(j, width, composite) ==
    IF composite
    THEN <<Row(PosOf(j, width), CodeOf(j), <<"HEADER">>, None, "C", <<"1">>),
           Row(None, SubCodeOf(j), <<"Component">>, <<"a", "n", ".", ".", "3">>,
               "C", None)>>
    ELSE <<Row(PosOf(j, width), CodeOf(j), <<"ELEMENT">>,
               <<"a", "n", ".", ".", "3">>, "C", <<"1">>)>>

RECURSIVE PosTable(_, _, _)
PosTable(n, width, composite) ==
    IF n = 0 THEN <<>>
    ELSE PosTable(n - 1, width, composite) \o PosRows(n, width, composite)

PosSD(n, width, composite) ==
    (FTX :> [name |-> <<"FREE TEXT">>,
             description |-> <<"To provide free form or coded text information.">>,
             table |-> PosTable(n, width, composite)])

PosED(n) ==
    [code \in {CodeOf(j) : j \in 1..n} \cup {SubCodeOf(j) : j \in 1..n}
        |-> [name |-> <<"Element">>]]

(* One more data element with one empty component. *)
AddSlot ==
    /\ Building("segments")
    /\ Len(input.val[1][2]) < MaxRows
    /\ input' = [input EXCEPT !.val[1][2] = Append(@, <<<<>>>>)]
    /\ size' = size + 1
    /\ UNCHANGED <<ops, vals>>

InitPos ==
    /\ input \in {[type |-> "segments", val |-> <<<<FTX, <<>>>>>>,
                   sd |-> PosSD(n, width, composite), ed |-> PosED(n),
                   rows |-> n, width |-> width, composite |-> composite]
                     : n \in 1..MaxRows, width \in {3, 4}, composite \in BOOLEAN}
    /\ size = 0
    /\ ops = <<>>
    /\ vals = <<>>

NextPos ==
    \/ AddSlot
    \/ Report
    \/ MakeEdiXml

SpecPos == InitPos /\ [][NextPos]_vars

(* The code of the row make_edi_xml selected for the data element d (from  *)
(* 1) of the first segment of its tree: the code attribute of the data     *)
(* element under a composite header row, of its first component otherwise. *)
SelectedCode(tree, d) ==
    LET element == tree.children[1].children[d]
    IN  IF "code" \in DOMAIN element.attrib THEN element.attrib["code"]
        ELSE element.children[1].attrib["code"]

(* The end of the report line of a row: of the line of a composite header  *)
(* row, or of the line of a component with its empty text.                 *)
CodePiece(code, composite) ==
    (IF composite THEN <<" (">> ELSE <<"> (">>) \o code \o <<")">>

(* C24: in report and make_edi_xml the row of the data element at index    *)
(* d_i is the first row whose pos ends with the decimal string of          *)
(* 10 * (d_i + 1): for a table of positions 010, 020, ... in increasing    *)
(* order, written '010' or '0010', the row of every data element that has  *)
(* a row is the one of numeric pos 10 * (d_i + 1), also when the table has *)
(* more than ten positions; a data element without a row raises.           *)
C24_RowSelectedBySuffix ==
    \A k \in 1..Len(ops) :
        ops[k].fn \in {"report", "make_edi_xml"}
        => LET slots == Len(ValueBefore(k)[1][2])
           IN  /\ IsOk(vals[k]) <=> slots <= input.rows
               /\ (IsOk(vals[k]) /\ ops[k].fn = "make_edi_xml")
                  => /\ \A d \in 1..slots : SelectedCode(vals[k].val, d) = CodeOf(d)
                     /\ vals[k] = make_edi_xml(ValueBefore(k),
                                      PosSD(input.rows, 7 - input.width,
                                            input.composite),
                                      input.ed, EDIFACT)
               /\ (IsOk(vals[k]) /\ ops[k].fn = "report")
                  => \A j \in 1..input.rows :
                        Occurrences(vals[k].val,
                                    CodePiece(CodeOf(j), input.composite))
                          = (IF j <= slots THEN 1 ELSE 0)

(* make_edi_xml returned a tree for eleven data elements against a table   *)
(* of eleven positions.                                                    *)
C24_Witness ==
    /\ Len(ops) = 1 /\ ops[1].fn = "make_edi_xml" /\ IsOk(vals[1])
    /\ Len(input.val[1][2]) > 10
    /\ input.rows > 10
    /\ SelectedCode(vals[1].val, 1) = CodeOf(1)
    /\ SelectedCode(vals[1].val, 11) = CodeOf(11)

-----------------------------------------------------------------------------
(* The pieces of a message between its segment terminators that have text. *)
PiecesWithText(B) ==
    {p \in 1..Len(PlainSplit(B, SEGMENT_TERMINATOR)) :
        PlainSplit(B, SEGMENT_TERMINATOR)[p] # <<>>}

(* A message in the default delimiters, without release character and      *)
(* without the letters of an interchange header, that parse_edi accepted   *)
(* as the first call of the session.                                       *)
AcceptedPlainWire ==
    /\ input.type = "bytes" /\ Called(1, "parse_edi") /\ IsOk(vals[1])
    /\ PlainWire(input.val)
    /\ IndexOf(input.val, UNB) = -1

(* C28: parse_edi discards only the empty remainder after the final        *)
(* segment terminator: every piece with text that the split on the         *)
(* terminator produces is a segment of the result, or parse_edi raises.    *)
(* Stated for the messages in the default delimiters without release       *)
(* character: an accepted message has as many segments as pieces with      *)
(* text.                                                                   *)
C28_OnlyEmptyRemainderDiscarded ==
    AcceptedPlainWire
    => Len(vals[1].val) = Cardinality(PiecesWithText(input.val))

(* The same for the messages that end with the segment terminator. *)
NothingDiscardedBeforeFinalTerminator ==
    (/\ AcceptedPlainWire
     /\ input.val # <<>> => input.val[Len(input.val)] = SEGMENT_TERMINATOR)
    => Len(vals[1].val) = Cardinality(PiecesWithText(input.val))

-----------------------------------------------------------------------------
(* The shape of a segment of a parsed form: the body of UNA is six         *)
(* strings of one character, any other segment has a data element and     *)
(* every data element has a component.                                     *)
ParsedShape(segment) ==
    IF segment[1] = UNA
    THEN /\ Len(segment[2]) = 6
         /\ \A e \in 1..6 : Len(segment[2][e]) = 1
    ELSE /\ Len(segment[2]) >= 1
         /\ \A e \in 1..Len(segment[2]) : Len(segment[2][e]) >= 1

(* C29: every form parse_edi returns has the canonical shape: each segment *)
(* other than UNA has a data element, each data element has a component    *)
(* (an empty slot is [''], never []), and the body of UNA is six strings   *)
(* of one character.                                                       *)
C29_ParsedFormsAreCanonical ==
    \A k \in 1..Len(ops) :
        (ops[k].fn = "parse_edi" /\ IsOk(vals[k]))
        => \A s \in 1..Len(vals[k].val) : ParsedShape(vals[k].val[s])

(* parse_edi returned a form with a UNA segment followed by a segment      *)
(* whose last data element is the empty slot [''].                         *)
C29_Witness ==
    \E k \in 1..Len(ops) :
        /\ ops[k].fn = "parse_edi" /\ IsOk(vals[k])
        /\ Len(vals[k].val) >= 2
        /\ vals[k].val[1][1] = UNA
        /\ LET body == vals[k].val[2][2]
           IN  body[Len(body)] = <<<<>>>>

-----------------------------------------------------------------------------
(* The search navigation of an Editor window, gui.py:19-105 *)

(* An attribute that holds None or a value. *)
Unset == <<>>

Set(x) == <<x>>

MaxText == 3

TextChars == {"a", "b"}

Patterns == {<<>>, <<"a">>, <<"b">>, <<"a", "b">>}

(* Editor.__init__: no matches and no current match; the text widget holds *)
(* the text on its line 1, and no range is tagged and none scrolled to.    *)
NewEditor(text) ==
    [text |-> text, index_matches |-> Unset, current_index |-> Unset,
     found |-> <<>>, seen |-> Unset]

(* The index of column c (from 0) of line 1 of the text widget. *)
TextIndex(c) == <<"1", ".">> \o Dec(c)

(* "%s+%sc" % (index, count) *)
MatchIndex(c, count) == TextIndex(c) \o <<"+">> \o Dec(count) \o <<"c">>

(* sc_text.search(pattern, "matchEnd", "searchLimit"): the first column    *)
(* from the column from on where the pattern stands, or -1 for "".         *)
Search(text, pattern, from) ==
    LET hits == {c \in from..(Len(text) - Len(pattern)) :
                    SubSeq(text, c + 1, c + Len(pattern)) = pattern}
    IN  IF hits = {} THEN -1
        ELSE CHOOSE c \in hits : \A other \in hits : c <= other

(* The loop of highlight_pattern: the columns of the matches, each search  *)
(* starting at the end of the match before.                                *)
RECURSIVE SearchAll(_, _, _)
SearchAll(text, pattern, from) ==
    LET index == Search(text, pattern, from)
    IN  IF index = -1 THEN <<>>
        ELSE <<index>> \o SearchAll(text, pattern, index + Len(pattern))

highlight_pattern(self, pattern) ==
    IF pattern = <<>> THEN [self EXCEPT !.found = <<>>]
    ELSE LET columns == SearchAll(self.text, pattern, 0)
         IN  [self EXCEPT
                 !.index_matches =
                     Set([m \in 1..Len(columns) |->
                             MatchIndex(columns[m], Len(pattern))]),
                 !.current_index = Unset,
                 !.found = [m \in 1..Len(columns) |->
                               <<TextIndex(columns[m]),
                                 MatchIndex(columns[m], Len(pattern))>>]]

(* "not self.index_matches": None or the empty list. *)
NoMatches(self) == self.index_matches = Unset \/ self.index_matches[1] = <<>>

(* current_index set to i and the match scrolled into view. *)
See(self, i) ==
    [self EXCEPT !.current_index = Set(i),
                 !.seen = Set(self.index_matches[1][i + 1])]

(* A next button that does not wrap. *)
ClickNextWithoutWrap(self) ==
    IF NoMatches(self) THEN self
    ELSE IF self.current_index = Unset
         THEN [self EXCEPT !.current_index = Set(0)]
         ELSE [self EXCEPT !.current_index = Set(self.current_index[1] + 1)]

click_next_button(self) ==
    IF NoMatches(self) THEN self
    ELSE LET n == Len(self.index_matches[1])
         IN  IF self.current_index = Unset THEN See(self, 0 % n)
             ELSE See(self, (self.current_index[1] + 1) % n)

click_prev_button(self) ==
    IF NoMatches(self) THEN self
    ELSE LET n == Len(self.index_matches[1])
         IN  IF self.current_index = Unset THEN See(self, (n - 1) % n)
             ELSE See(self, (self.current_index[1] - 1) % n)

(* The editor after call k, the new editor for k = 0. *)
EditorAfter(k) == IF k = 0 THEN input.val ELSE vals[k].val

(* A character typed into the text widget before the first search. *)
TypeChar(ch) ==
    /\ Building("editor")
    /\ Len(input.val.text) < MaxText
    /\ input' = [input EXCEPT !.val.text = Append(@, ch)]
    /\ size' = size + 1
    /\ UNCHANGED <<ops, vals>>

(* A key released in the search entry. *)
HighlightPattern(pattern) ==
    /\ input.type = "editor"
    /\ Len(ops) < MaxOps
    /\ Record("highlight_pattern", [pattern |-> pattern],
              Ok(highlight_pattern(EditorAfter(Len(ops)), pattern)))

ClickNextButton ==
    /\ input.type = "editor"
    /\ Len(ops) < MaxOps
    /\ Record("click_next_button", [pattern |-> <<>>],
              Ok(click_next_button(EditorAfter(Len(ops)))))

ClickPrevButton ==
    /\ input.type = "editor"
    /\ Len(ops) < MaxOps
    /\ Record("click_prev_button", [pattern |-> <<>>],
              Ok(click_prev_button(EditorAfter(Len(ops)))))

InitSearch ==
    /\ input = [type |-> "editor", val |-> NewEditor(<<>>)]
    /\ size = 0
    /\ ops = <<>>
    /\ vals = <<>>

NextSearch ==
    \/ \E ch \in TextChars : TypeChar(ch)
    \/ \E pattern \in Patterns : HighlightPattern(pattern)
    \/ ClickNextButton
    \/ ClickPrevButton

SpecSearch == InitSearch /\ [][NextSearch]_vars

(* current_index is None or an index of index_matches. *)
IndexInRange(self) ==
    \/ self.current_index = Unset
    \/ /\ self.index_matches # Unset
       /\ 0 <= self.current_index[1]
       /\ self.current_index[1] < Len(self.index_matches[1])

(* What a button did at call k of the session: from None the first or the  *)
(* last match, at the last or the first match the wrap to the other end,   *)
(* and nothing without matches.                                            *)
Navigated(k) ==
    LET before == EditorAfter(k - 1)
        after == EditorAfter(k)
        n == Len(before.index_matches[1])
        next == ops[k].fn = "click_next_button"
        prev == ops[k].fn = "click_prev_button"
    IN  IF ~(next \/ prev) THEN TRUE
        ELSE IF NoMatches(before) THEN after = before
        ELSE /\ (next /\ before.current_index = Unset)
                => after.current_index = Set(0)
             /\ (prev /\ before.current_index = Unset)
                => after.current_index = Set(n - 1)
             /\ (next /\ before.current_index = Set(n - 1))
                => after.current_index = Set(0)
             /\ (prev /\ before.current_index = Set(0))
                => after.current_index = Set(n - 1)

(* C30: after any sequence of highlight_pattern, click_next_button and     *)
(* click_prev_button calls, current_index is None or satisfies             *)
(* 0 <= current_index < len(index_matches); from None, next selects match  *)
(* 0 and prev the last match; next after the last match wraps to match 0   *)
(* and prev before match 0 to the last match; without matches the buttons  *)
(* change nothing.                                                         *)
C30_SearchNavigation ==
    input.type = "editor"
    => \A k \in 0..Len(ops) :
           /\ IndexInRange(EditorAfter(k))
           /\ k >= 1 => Navigated(k)

(* The next button wrapped from the last of at least two matches to the    *)
(* first.                                                                  *)
C30_Witness ==
    /\ input.type = "editor"
    /\ \E k \in 1..Len(ops) :
           /\ ops[k].fn = "click_next_button"
           /\ ~NoMatches(EditorAfter(k - 1))
           /\ Len(EditorAfter(k - 1).index_matches[1]) >= 2
           /\ EditorAfter(k - 1).current_index =
                  Set(Len(EditorAfter(k - 1).index_matches[1]) - 1)
           /\ EditorAfter(k).current_index = Set(0)

-----------------------------------------------------------------------------
(* The editor, gui.py:108-304.  The text of an Editor window is a document:*)
(* plain text, the rendering of a Python literal, or the serialisation of  *)
(* an XML tree.  The dictionaries of the editor are read from files kept   *)
(* outside the source; the sessions use the dictionaries SD and ED.        *)

TextDoc(text) == [kind |-> "text", text |-> text, val |-> <<>>]

(* pprint.pformat(object): the text of the literal that denotes object. *)
pformat(object) == [kind |-> "literal", text |-> <<>>, val |-> object]

(* ast.literal_eval(text): the value a literal denotes; any other text is  *)
(* a SyntaxError.                                                          *)
literal_eval(doc) ==
    IF doc.kind = "literal" THEN Ok(doc.val)
    ELSE Raise("SyntaxError", "invalid syntax", 0)

Indent == "    "

(* The white space before a child at the given depth. *)
RECURSIVE Indentation(_)
Indentation(depth) ==
    IF depth = 0 THEN <<NEWLINE>> ELSE Indentation(depth - 1) \o <<Indent>>

(* toprettyxml: an element with children has each child on a line of its   *)
(* own behind the indentation, an element without text is written as an    *)
(* empty tag.                                                              *)
RECURSIVE Pretty(_, _)
Pretty(element, depth) ==
    IF element.children = <<>>
    THEN [element EXCEPT !.text = IF @ = <<>> THEN None ELSE @]
    ELSE [element EXCEPT
             !.text = Indentation(depth + 1),
             !.children = [c \in 1..Len(element.children) |->
                              Pretty(element.children[c], depth + 1)]]

(* pretty_xml(root): the serialisation of the tree, indented. *)
pretty_xml(root) == [kind |-> "xml", text |-> <<>>, val |-> Pretty(root, 0)]

(* ElementTree.fromstring(text): the tree a document serialises; any other *)
(* text is a ParseError.                                                   *)
fromstring(doc) ==
    IF doc.kind = "xml" THEN Ok(doc.val)
    ELSE Raise("ParseError", "not well-formed", 0)

(* Editor.text: the content of the text widget, which ends every text with *)
(* a newline.                                                              *)
GetText(doc) ==
    IF doc.kind = "text" THEN [doc EXCEPT !.text = @ \o <<NEWLINE>>] ELSE doc

Formats == {"edi", "segments", "xml", "report"}

DocTitle == <<"D18A">>

(* GUI.__init__: no segments, the title of the module doc, the four        *)
(* check-boxes unticked and the four editors withdrawn and empty.          *)
NewGUI ==
    [segments |-> Unset,
     title |-> DocTitle,
     editor_edi |-> TextDoc(<<>>),
     editor_segments |-> TextDoc(<<>>),
     editor_xml |-> TextDoc(<<>>),
     editor_report |-> TextDoc(<<>>),
     checked |-> {},
     shown |-> {},
     dialogs |-> <<>>]

(* An exception left the handler, the window as it was at the raise. *)
Escaped(self, err) == [err EXCEPT !.val = self]

(* A dialog after which the structural state is forgotten. *)
ShowErrorForgetting(self, title, err) ==
    [self EXCEPT !.dialogs = Append(@, <<title, err.kind>>), !.segments = Unset]

showerror(self, title, err) ==
    [self EXCEPT !.dialogs = Append(@, <<title, err.kind>>)]

NotIterable == Raise("TypeError", "NoneType is not iterable", 0)

(* A file of the file dialog: its path and its content.  The dialog        *)
(* returns the empty path when it is cancelled.                            *)
File(name, data) == [name |-> name, data |-> data]

NoFile == File(<<>>, TextDoc(<<>>))

(* The message of one segment with one data element of one component. *)
Message(tag, ch) ==
    LET component == <<ch>>
        data_element == <<component>>
        segment == <<tag, <<data_element>>>>
    IN  <<segment>>

(* The line of the message on the wire. *)
Wire(tag, ch) == TextDoc(tag \o <<DATAELEMENT_SEPARATOR, ch, SEGMENT_TERMINATOR>>)

(* The plain XML of the message, not indented. *)
Xml(tag, ch) ==
    [kind |-> "xml", text |-> <<>>, val |-> make_xml(Message(tag, ch), EDIFACT).val]

(* What the user leaves in an editor when a key is released: nothing, a    *)
(* message, a message with a tag outside the recognised set, a message     *)
(* with more data elements than the dictionary has rows, or a broken text. *)
EdiTexts ==
    {TextDoc(<<>>), Wire(FTX, "A"), Wire(XYZ, "A"),
     TextDoc(FTX \o <<"+", "A", "+", "A", "+", "A", "'">>)}

SegmentsTexts ==
    {pformat(Message(FTX, "B")), pformat(Message(XYZ, "B")), TextDoc(<<"[">>)}

XmlTexts == {Xml(FTX, "C"), Xml(XYZ, "C"), TextDoc(<<"<">>)}

(* The files the dialogs offer; NoFile is the cancelled dialog. *)
EdiFiles == {File(<<"a.edi">>, Wire(FTX, "A")), File(<<"b.edi">>, Wire(XYZ, "A"))}

XmlFiles == {File(<<"c.xml">>, Xml(FTX, "C")), File(<<"d.xml">>, TextDoc(<<"<">>))}

(* A statement run on the result of the statements before it: skipped when *)
(* an exception has left the handler.                                      *)
Then(result, Statement(_)) ==
    IF IsOk(result) THEN Statement(result.val) ELSE result

(* editor.text = text, where computing the text may raise. *)
SetText(self, editor, text) ==
    IF IsOk(text) THEN Ok([self EXCEPT ![editor] = text.val])
    ELSE Escaped(self, text)

(* make_edi(self.segments, with_newline=True).decode('utf8') *)
EdiText(segments) ==
    IF segments = Unset THEN NotIterable
    ELSE Then(Then(make_edi(segments[1],
                            [DefaultOptions EXCEPT !.with_newline = TRUE]),
                   LAMBDA data : Decode("utf8", data)),
              LAMBDA text : Ok(TextDoc(text)))

(* pretty_xml(make_edi_xml(self.segments, SD, ED)) *)
XmlText(segments) ==
    IF segments = Unset THEN NotIterable
    ELSE Then(make_edi_xml(segments[1], SD, ED, EDIFACT),
              LAMBDA root : Ok(pretty_xml(root)))

(* report(self.segments, SD, ED) *)
ReportText(segments) ==
    IF segments = Unset THEN NotIterable
    ELSE Then(report(segments[1], SD, ED), LAMBDA text : Ok(TextDoc(text)))



(* parse_edi(self.editor_edi.text.encode('utf8')) *)
ParsedEdi(doc) ==
    Then(Encode("utf8", doc.text), LAMBDA data : parse_edi(data, DefaultOptions))

(* parse_xml(ElementTree.fromstring(self.editor_xml.text)) *)
ParsedXml(doc) == Then(fromstring(doc), parse_xml)

(* The messages of the sessions: the values of the parse steps that       *)
(* return.                                                                 *)
Messages ==
    LET parsed == {ParsedEdi(GetText(doc)) : doc \in EdiTexts}
                  \cup {literal_eval(GetText(doc)) : doc \in SegmentsTexts}
                  \cup {ParsedXml(GetText(doc)) : doc \in XmlTexts}
                  \cup {parse_edi(file.data.text, DefaultOptions) : file \in EdiFiles}
                  \cup {ParsedXml(file.data) : file \in XmlFiles}
    IN  {result.val : result \in {r \in parsed : IsOk(r)}}

(* The three texts the handlers compute from self.segments, or what        *)
(* computing them raises, for each message of the sessions.  The texts are *)
(* functions of the message alone; a session computes the table once and   *)
(* the handlers look the texts up in it.                                   *)
Texts ==
    [segments \in Messages |->
        [editor_edi |-> EdiText(Set(segments)),
         editor_xml |-> XmlText(Set(segments)),
         editor_report |-> ReportText(Set(segments))]]

TextOf(segments, editor) ==
    IF segments = Unset THEN NotIterable ELSE input.texts[segments[1]][editor]

(* The statements that write an editor from self.segments. *)
WriteEdi(self) == SetText(self, "editor_edi", TextOf(self.segments, "editor_edi"))

WriteSegments(self) ==
    Ok([self EXCEPT !.editor_segments = pformat(self.segments[1])])

WriteXml(self) == SetText(self, "editor_xml", TextOf(self.segments, "editor_xml"))

(* GUI.report *)
GUI_report(self) ==
    SetText(self, "editor_report", TextOf(self.segments, "editor_report"))

(* The try statement of a handler: self.segments assigned the value of the *)
(* parse step, or the dialog of the exception it raised.                   *)
Try(self, parsed, title) ==
    IF IsOk(parsed) THEN Ok([self EXCEPT !.segments = Set(parsed.val)])
    ELSE Escaped(showerror(self, title, parsed), parsed)

(* "return" in the except branch: the handler returns with the dialog      *)
(* shown.                                                                  *)
Return(tried) == IF IsOk(tried) THEN tried ELSE Ok(tried.val)

(* The edit handlers: the parse step, which shows a dialog and returns     *)
(* when it raises, then the two other editors in the order of the handler  *)
(* and the report.                                                         *)
edit_xml(self) ==
    LET tried == Try(self, ParsedXml(GetText(self.editor_xml)), "Edit XML Error")
    IN  IF ~IsOk(tried) THEN Return(tried)
        ELSE Then(Then(Then(tried, WriteEdi), WriteSegments), GUI_report)

edit_segments(self) ==
    LET tried == Try(self, literal_eval(GetText(self.editor_segments)),
                     "Edit Segments Error")
    IN  IF ~IsOk(tried) THEN Return(tried)
        ELSE Then(Then(Then(tried, WriteEdi), WriteXml), GUI_report)

edit_edifact(self) ==
    LET tried == Try(self, ParsedEdi(GetText(self.editor_edi)), "Edit EDI Error")
    IN  IF ~IsOk(tried) THEN Return(tried)
        ELSE Then(Then(Then(tried, WriteSegments), WriteXml), GUI_report)

(* GUI.reload: the editors of the ticked check-boxes shown, then the three *)
(* representation editors written.  The messages of the sessions have no   *)
(* UNH segment, for which reload would select the message type.            *)
reload(self) ==
    Then(Then(WriteEdi([self EXCEPT !.shown = @ \cup self.checked]),
              WriteSegments),
         WriteXml)

(* The statements of open_edi and open_xml from wm_title on, with the      *)
(* check-box of the format.                                                *)
Opened(self, file, format) ==
    Then(Then(reload([self EXCEPT !.title = file.name]), GUI_report),
         LAMBDA loaded : Ok([loaded EXCEPT !.checked = @ \cup {format},
                                           !.shown = @ \cup {format}]))

open_edi(self, file) ==
    IF file.name = <<>> THEN Ok(self)
    ELSE LET tried == Try(self, parse_edi(file.data.text, DefaultOptions),
                          "Open EDI Failed")
         IN  IF ~IsOk(tried) THEN Return(tried)
             ELSE Opened(tried.val, file, "edi")

(* The except branch of open_xml does not return. *)
open_xml(self, file) ==
    IF file.name = <<>> THEN Ok(self)
    ELSE Opened(Try(self, ParsedXml(file.data), "Open XML Failed").val,
                file, "xml")

(* A check-box clicked: the variable toggled, then switch_edi,             *)
(* switch_segments, switch_xml or switch_report.                           *)
switch(self, format) ==
    IF format \in self.checked
    THEN [self EXCEPT !.checked = @ \ {format}, !.shown = @ \ {format}]
    ELSE [self EXCEPT !.checked = @ \cup {format}, !.shown = @ \cup {format}]


MaxEvents == 4

(* The window after event k of the session, the new window for k = 0. *)
GUIAfter(k) == IF k = 0 THEN input.val ELSE vals[k].val

Event(fn, arg, result) ==
    /\ input.type = "gui"
    /\ Len(ops) < MaxEvents
    /\ Record(fn, [arg |-> arg], result)

(* A key released in the EDI, the Segments or the XML editor, which is     *)
(* shown and holds the text the user left.                                 *)
EditEdifact(doc) ==
    /\ "edi" \in GUIAfter(Len(ops)).shown
    /\ Event("edit_edifact", doc,
             edit_edifact([GUIAfter(Len(ops)) EXCEPT !.editor_edi = doc]))

EditSegments(doc) ==
    /\ "segments" \in GUIAfter(Len(ops)).shown
    /\ Event("edit_segments", doc,
             edit_segments([GUIAfter(Len(ops)) EXCEPT !.editor_segments = doc]))

EditXml(doc) ==
    /\ "xml" \in GUIAfter(Len(ops)).shown
    /\ Event("edit_xml", doc,
             edit_xml([GUIAfter(Len(ops)) EXCEPT !.editor_xml = doc]))

(* The menu commands, with the file the dialog returned. *)
OpenEdi(file) ==
    /\ input.type = "gui"
    /\ Event("open_edi", file, open_edi(GUIAfter(Len(ops)), file))

OpenXml(file) ==
    /\ input.type = "gui"
    /\ Event("open_xml", file, open_xml(GUIAfter(Len(ops)), file))

(* A check-box of the formats clicked. *)
Switch(format) ==
    /\ input.type = "gui"
    /\ Event("switch", TextDoc(<<format>>), Ok(switch(GUIAfter(Len(ops)), format)))

InitGui ==
    /\ input = [type |-> "gui", val |-> NewGUI, texts |-> Texts]
    /\ size = 0
    /\ ops = <<>>
    /\ vals = <<>>

NextGui ==
    \/ \E doc \in EdiTexts : EditEdifact(doc)
    \/ \E doc \in SegmentsTexts : EditSegments(doc)
    \/ \E doc \in XmlTexts : EditXml(doc)
    \/ \E file \in EdiFiles \cup {NoFile} : OpenEdi(file)
    \/ \E file \in XmlFiles \cup {NoFile} : OpenXml(file)
    \/ \E format \in Formats : Switch(format)

(* Sessions of the editor. *)
SpecGui == InitGui /\ [][NextGui]_vars

Handlers == {"edit_edifact", "edit_segments", "edit_xml", "open_edi", "open_xml"}

(* What the parse step of event k returned or raised.  The text of an      *)
(* editor is read through Editor.text, a file as it is.                    *)
ParseStep(k) ==
    LET arg == ops[k].opts.arg
    IN  CASE ops[k].fn = "edit_edifact" -> ParsedEdi(GetText(arg))
          [] ops[k].fn = "edit_segments" -> literal_eval(GetText(arg))
          [] ops[k].fn = "edit_xml" -> ParsedXml(GetText(arg))
          [] ops[k].fn = "open_edi" -> parse_edi(arg.data.text, DefaultOptions)
          [] ops[k].fn = "open_xml" -> ParsedXml(arg.data)

(* Event k is a handler that reached its parse step: a key released in an  *)
(* editor, or a file chosen in a dialog.                                   *)
Parses(k) ==
    /\ ops[k].fn \in Handlers
    /\ ops[k].fn \in {"open_edi", "open_xml"} => ops[k].opts.arg.name # <<>>

(* The value of the last successful parse among the events 1..k, None when *)
(* there is none.                                                          *)
RECURSIVE LastParsed(_)
LastParsed(k) ==
    IF k = 0 THEN Unset
    ELSE IF Parses(k) /\ IsOk(ParseStep(k)) THEN Set(ParseStep(k).val)
    ELSE LastParsed(k - 1)

(* C25: over any sequence of the handlers edit_edifact, edit_segments,     *)
(* edit_xml, open_edi and open_xml, a handler whose parse step raises      *)
(* shows an error dialog and leaves self.segments equal to the value set   *)
(* by the last successful parse: after every event self.segments is the    *)
(* value of the last successful parse (None before the first), and a parse *)
(* step that raised added one dialog.                                      *)
C25_FailedParseKeepsSegments ==
    input.type = "gui"
    => \A k \in 1..Len(ops) :
           /\ GUIAfter(k).segments = LastParsed(k)
           /\ (Parses(k) /\ ~IsOk(ParseStep(k)))
              => /\ Len(GUIAfter(k).dialogs) = Len(GUIAfter(k - 1).dialogs) + 1
                 /\ GUIAfter(k).dialogs[Len(GUIAfter(k).dialogs)][2]
                        = ParseStep(k).kind
                 /\ GUIAfter(k).segments = GUIAfter(k - 1).segments

(* A parse step raised after an earlier one had set self.segments to a     *)
(* message.                                                                *)
C25_Witness ==
    /\ input.type = "gui"
    /\ \E k \in 2..Len(ops) :
           /\ Parses(k) /\ ~IsOk(ParseStep(k))
           /\ GUIAfter(k - 1).segments # Unset
           /\ GUIAfter(k - 1).segments[1] # <<>>
           /\ GUIAfter(k).segments = GUIAfter(k - 1).segments


(* Two editors hold the same text. *)
SameDoc(a, b) == a.kind = b.kind /\ a.text = b.text /\ a.val = b.val

(* Event k is the open handler fn with a file whose parse step raised. *)
FailedOpen(k, fn) == ops[k].fn = fn /\ Parses(k) /\ ~IsOk(ParseStep(k))

(* Handler k returned and left the title, the four editors and the         *)
(* check-boxes as they were.                                               *)
StoppedAfterDialog(k) ==
    LET before == GUIAfter(k - 1)
        after == GUIAfter(k)
    IN  /\ vals[k].kind = "ok"
        /\ after.title = before.title
        /\ SameDoc(after.editor_edi, before.editor_edi)
        /\ SameDoc(after.editor_segments, before.editor_segments)
        /\ SameDoc(after.editor_xml, before.editor_xml)
        /\ SameDoc(after.editor_report, before.editor_report)
        /\ after.checked = before.checked

(* C26: when the parse step of open_edi or open_xml raises, the handler    *)
(* stops after the error dialog: the window title, the contents of the     *)
(* EDI, Segments, XML and Report editors and the format check-boxes are    *)
(* unchanged and no further exception is raised, also when self.segments   *)
(* is None.                                                                *)
C26_FailedOpenStopsAfterDialog ==
    input.type = "gui"
    => \A k \in 1..Len(ops) :
           (FailedOpen(k, "open_edi") \/ FailedOpen(k, "open_xml"))
           => StoppedAfterDialog(k)

(* The same for open_edi alone. *)
FailedOpenEdiStopsAfterDialog ==
    input.type = "gui"
    => \A k \in 1..Len(ops) : FailedOpen(k, "open_edi") => StoppedAfterDialog(k)

(* open_xml, after the dialog of a parse step that raised, sets the title  *)
(* to the path of the file and goes on to reload: with self.segments None  *)
(* a TypeError leaves the handler, otherwise the handler returns with the  *)
(* XML check-box ticked.                                                   *)
FailedOpenXmlGoesOn ==
    input.type = "gui"
    => \A k \in 1..Len(ops) :
           FailedOpen(k, "open_xml")
           => /\ GUIAfter(k).title = ops[k].opts.arg.name
              /\ GUIAfter(k - 1).segments = Unset => vals[k].kind = "TypeError"
              /\ vals[k].kind = "ok" => "xml" \in GUIAfter(k).checked


(* An editor shows the message segments: it holds the text the handlers    *)
(* compute from it, or a text that parses to it.                           *)
ShowsEdi(doc, segments) ==
    \/ IsOk(EdiText(segments)) /\ SameDoc(doc, EdiText(segments).val)
    \/ /\ doc.kind = "text"
       /\ IsOk(ParsedEdi(GetText(doc)))
       /\ ParsedEdi(GetText(doc)).val = segments[1]

ShowsSegments(doc, segments) ==
    doc.kind = "literal" /\ doc.val = segments[1]

ShowsXml(doc, segments) ==
    \/ IsOk(XmlText(segments)) /\ SameDoc(doc, XmlText(segments).val)
    \/ /\ doc.kind = "xml"
       /\ IsOk(ParsedXml(doc))
       /\ ParsedXml(doc).val = segments[1]

ShowsReport(doc, segments) ==
    IsOk(ReportText(segments)) /\ SameDoc(doc, ReportText(segments).val)

Edits == {"edit_edifact", "edit_segments", "edit_xml"}

(* After the edit handler of event k, the two other representation editors *)
(* and the Report editor show the current self.segments.                   *)
DerivedViewsCurrent(k) ==
    LET self == GUIAfter(k)
    IN  /\ ops[k].fn # "edit_edifact" => ShowsEdi(self.editor_edi, self.segments)
        /\ ops[k].fn # "edit_segments"
           => ShowsSegments(self.editor_segments, self.segments)
        /\ ops[k].fn # "edit_xml" => ShowsXml(self.editor_xml, self.segments)
        /\ ShowsReport(self.editor_report, self.segments)

(* The events 1..k are edit handlers and clicks on the check-boxes. *)
OnlyEdits(k) == \A j \in 1..k : ops[j].fn \in Edits \cup {"switch"}

(* C27: the derived views are updated atomically with the structural       *)
(* state: after any sequence of edit_edifact, edit_segments and edit_xml   *)
(* calls, whether a call completes or stops on an error, the other         *)
(* representation editors and the Report editor are computed from the      *)
(* current self.segments; self.segments is never replaced while a derived  *)
(* view still shows the previous message.                                  *)
C27_DerivedViewsAtomic ==
    input.type = "gui"
    => \A k \in 1..Len(ops) :
           (/\ OnlyEdits(k)
            /\ ops[k].fn \in Edits
            /\ GUIAfter(k).segments # Unset)
           => DerivedViewsCurrent(k)

(* The same for the edit handlers that ran to their end. *)
DerivedViewsCurrentAfterCompletedEdit ==
    input.type = "gui"
    => \A k \in 1..Len(ops) :
           (/\ ops[k].fn \in Edits
            /\ IsOk(ParseStep(k))
            /\ vals[k].kind = "ok")
           => DerivedViewsCurrent(k)

(* An edit handler replaced self.segments and an exception of the emitter  *)
(* or the annotator left it before every derived view was written.         *)
EditLeftViewsBehind ==
    input.type = "gui"
    => \A k \in 1..Len(ops) :
           (ops[k].fn \in Edits /\ vals[k].kind # "ok")
           => /\ IsOk(ParseStep(k))
              /\ GUIAfter(k).segments = Set(ParseStep(k).val)
              /\ SameDoc(GUIAfter(k).editor_report, GUIAfter(k - 1).editor_report)

=============================================================================
